---- MODULE Spec2Model ----
(***************************************************************************)
(* Model of the Telegram/Gemini relay bot of src/app.js (the final draft,  *)
(* lines 628-1539): the per-user session, the message handler of           *)
(* bot.on('message') cut at its await points, the attachment staging       *)
(* helpers and the history update of the success and the error path.       *)
(***************************************************************************)
EXTENDS Integers, Sequences, FiniteSets, TLC

(***************************************************************************)
(* Bounds of the exploration.                                              *)
(***************************************************************************)
\* updates that arrive in one behaviour of Spec
MaxUpdates == 12
\* inputs of one behaviour of Spec that differ from the plain exchange
\* (a text update answered with text and usage metadata)
MaxDev == 2
\* updates that arrive in one behaviour of SpecStage
MaxStageUpdates == 1
\* inputs of one behaviour of SpecStage that differ from the plain exchange
MaxStageDev == 3
\* updates (messages and commands) that arrive in one behaviour of SpecCmd
MaxCmdUpdates == 3
\* inputs of one behaviour of SpecCmd that differ from the plain exchange
MaxCmdDev == 1
\* outcomes of external calls in one behaviour of SpecPlace that differ from
\* the plain exchange
MaxPlaceDev == 1
\* updates and deviations in one behaviour of SpecIso
MaxIsoUpdates == 3
MaxIsoDev == 2
\* updates and deviations in one behaviour of SpecFiles
MaxFileUpdates == 2
MaxFileDev == 1
\* updates and deviations in one behaviour of SpecNewChat
MaxNewChatUpdates == 3
MaxNewChatDev == 1

(***************************************************************************)
(* Program constants.                                                      *)
(***************************************************************************)
maxHistoryMessages == 20
maxAttempts == 12

Users == {"u1", "u2"}
\* the invocations of the message handler that can be suspended at one time
Slots == {"s1", "s2"}

AVAILABLE_MODELS ==
  [a \in {"flash-04-17", "flash-05-20", "pro-05-06", "flash-2.0", "flash-lite-2.0"} |->
     CASE a = "flash-04-17" -> "gemini-2.5-flash-preview-04-17"
       [] a = "flash-05-20" -> "gemini-2.5-flash-preview-05-20"
       [] a = "pro-05-06" -> "gemini-2.5-pro-preview-05-06"
       [] a = "flash-2.0" -> "gemini-2.0-flash"
       [] a = "flash-lite-2.0" -> "gemini-2.0-flash-lite"]

MODEL_ALIASES ==
  [n \in {"04-17", "05-20", "pro-05-06", "flash", "flash-lite", "default", "flash2.5",
          "pro2.5"} |->
     CASE n = "04-17" -> "flash-04-17"
       [] n = "05-20" -> "flash-05-20"
       [] n = "pro-05-06" -> "pro-05-06"
       [] n = "flash" -> "flash-2.0"
       [] n = "flash-lite" -> "flash-lite-2.0"
       [] n = "default" -> "pro-05-06"
       [] n = "flash2.5" -> "flash-05-20"
       [] n = "pro2.5" -> "pro-05-06"]

CAPABLE_FILE_MODELS ==
  {"gemini-2.5-pro-preview-05-06", "gemini-2.5-flash-preview-05-20",
   "gemini-2.5-flash-preview-04-17", "gemini-2.0-flash", "gemini-2.0-flash-lite"}

(***************************************************************************)
(* Sequence helpers: Array.prototype.slice(-n) and String.startsWith.      *)
(***************************************************************************)
SliceLast(s, n) ==
  IF Len(s) > n THEN SubSeq(s, Len(s) - n + 1, Len(s)) ELSE s

StartsWith(s, p) ==
  Len(s) >= Len(p) /\ SubSeq(s, 1, Len(p)) = p

Includes(s, p) ==
  \E i \in 0..(Len(s) - Len(p)) : SubSeq(s, i + 1, i + Len(p)) = p

(***************************************************************************)
(* Buffers are sequences of bytes, file names sequences of the segments    *)
(* between dots.  Hex is Buffer.subarray(0, 16).toString('hex'): a         *)
(* sequence of nibbles, so that includes() can match across byte limits.   *)
(***************************************************************************)
Min(a, b) == IF a < b THEN a ELSE b

Hex(bytes) ==
  [i \in 1..(2 * Min(16, Len(bytes))) |->
     IF i % 2 = 1 THEN bytes[(i + 1) \div 2] \div 16 ELSE bytes[i \div 2] % 16]

\* buffer.subarray(8, 12)
Sub8to12(buffer) ==
  IF Len(buffer) <= 8 THEN << >> ELSE SubSeq(buffer, 9, Min(12, Len(buffer)))

\* toString('ascii') drops the high bit of every byte
Ascii(bytes) == [i \in 1..Len(bytes) |-> bytes[i] % 128]

ToLowerCase(seg) ==
  CASE seg = "PDF" -> "pdf"
    [] seg = "MP4" -> "mp4"
    [] OTHER -> seg

\* fileName.toLowerCase().split('.').pop() || ''
ExtOf(fileName) ==
  IF fileName = << >> THEN "" ELSE ToLowerCase(fileName[Len(fileName)])

\* mutant: the extension mp4 is looked at before the PNG signature
detectMimeTypeByName(buffer, fileName) ==
  IF Len(buffer) < 4 THEN "application/octet-stream"
  ELSE IF ExtOf(fileName) = "mp4" THEN "video/mp4"
  ELSE IF StartsWith(buffer, <<137, 80, 78, 71>>) THEN "image/png"
  ELSE "application/octet-stream"

detectMimeType(buffer, fileName) ==
  IF Len(buffer) < 4 THEN "application/octet-stream"
  ELSE
    LET signature == Hex(buffer)
        ext == ExtOf(fileName)
        sw(p) == StartsWith(signature, Hex(p))
    IN
    IF sw(<<137, 80, 78, 71>>) THEN "image/png" ELSE
    IF sw(<<255, 216, 255>>) THEN "image/jpeg" ELSE
    IF sw(<<71, 73, 70, 56>>) THEN "image/gif" ELSE
    IF sw(<<82, 73, 70, 70>>) /\ Sub8to12(buffer) = <<87, 69, 66, 80>> THEN "image/webp" ELSE
    IF sw(<<66, 77>>) THEN "image/bmp" ELSE
    IF sw(<<73, 73, 42, 0>>) \/ sw(<<77, 77, 0, 42>>) THEN "image/tiff" ELSE
    IF Includes(signature, Hex(<<102, 116, 121, 112>>)) \/ ext = "mp4" THEN "video/mp4" ELSE
    IF sw(<<26, 69, 223, 163>>) \/ ext = "webm" THEN "video/webm" ELSE
    IF sw(<<70, 76, 86, 1>>) \/ ext = "flv" THEN "video/x-flv" ELSE
    IF ext = "avi" THEN "video/x-msvideo" ELSE
    IF ext = "mov" \/ ext = "qt" THEN "video/quicktime" ELSE
    IF ext = "mkv" THEN "video/x-matroska" ELSE
    IF sw(<<73, 68, 51>>) \/ sw(<<255, 251>>) \/ sw(<<255, 243>>) \/ ext = "mp3" THEN "audio/mpeg" ELSE
    IF sw(<<79, 103, 103, 83>>) \/ ext = "ogg" THEN "audio/ogg" ELSE
    IF sw(<<82, 73, 70, 70>>) /\ Ascii(Sub8to12(buffer)) = <<87, 65, 86, 69>> THEN "audio/wav" ELSE
    IF ext = "flac" THEN "audio/flac" ELSE
    IF ext = "aac" THEN "audio/aac" ELSE
    IF ext = "m4a" THEN "audio/mp4" ELSE
    IF sw(<<37, 80, 68, 70>>) \/ ext = "pdf" THEN "application/pdf" ELSE
    IF sw(<<80, 75, 3, 4>>) \/ sw(<<80, 75, 5, 6>>) \/ sw(<<80, 75, 7, 8>>) THEN
           (CASE ext = "docx" -> "application/vnd.openxmlformats-officedocument.wordprocessingml.document"
              [] ext = "xlsx" -> "application/vnd.openxmlformats-officedocument.spreadsheetml.sheet"
              [] ext = "pptx" -> "application/vnd.openxmlformats-officedocument.presentationml.presentation"
              [] OTHER -> "application/zip") ELSE
    IF sw(<<208, 207, 17, 224, 161, 177, 26, 225>>) THEN
           (CASE ext = "doc" -> "application/msword"
              [] ext = "xls" -> "application/vnd.ms-excel"
              [] ext = "ppt" -> "application/vnd.ms-powerpoint"
              [] OTHER -> "application/x-ole-storage") ELSE
    IF ext = "txt" THEN "text/plain" ELSE
    IF ext = "html" \/ ext = "htm" THEN "text/html" ELSE
    IF ext = "css" THEN "text/css" ELSE
    IF ext = "js" THEN "application/javascript" ELSE
    IF ext = "json" THEN "application/json" ELSE
    IF ext = "xml" THEN "application/xml" ELSE
    IF ext = "md" THEN "text/markdown" ELSE
    IF ext = "csv" THEN "text/csv" ELSE
    IF ext = "rtf" THEN "text/rtf" ELSE
    IF ext = "py" THEN "text/x-python" ELSE
    IF sw(<<31, 139, 8>>) \/ ext = "gz" THEN "application/gzip" ELSE
    IF sw(<<55, 122, 188, 175, 39, 28>>) \/ ext = "7z" THEN "application/x-7z-compressed" ELSE
    IF sw(<<82, 97, 114, 33, 26, 7, 0>>) \/ ext = "rar" THEN "application/x-rar-compressed" ELSE
    "application/octet-stream"

(***************************************************************************)
(* getFileProcessingStrategy.  The string tests of the source              *)
(* (startsWith('image/'), includes('document'), ...) are evaluated on the   *)
(* MIME types detectMimeType can return.                                   *)
(***************************************************************************)
MimeStartsWith(mimeType, prefix) ==
  CASE prefix = "image/" ->
         mimeType \in {"image/png", "image/jpeg", "image/gif", "image/webp",
                       "image/bmp", "image/tiff"}
    [] prefix = "video/" ->
         mimeType \in {"video/mp4", "video/webm", "video/x-flv", "video/x-msvideo",
                       "video/quicktime", "video/x-matroska"}
    [] prefix = "audio/" ->
         mimeType \in {"audio/mpeg", "audio/ogg", "audio/wav", "audio/flac",
                       "audio/aac", "audio/mp4"}
    [] prefix = "text/" ->
         mimeType \in {"text/plain", "text/html", "text/css", "text/markdown",
                       "text/csv", "text/rtf", "text/x-python"}
    [] OTHER -> FALSE

MimeIncludes(mimeType, word) ==
  CASE word = "document" ->
         mimeType \in {"application/vnd.openxmlformats-officedocument.wordprocessingml.document",
                       "application/vnd.openxmlformats-officedocument.spreadsheetml.sheet",
                       "application/vnd.openxmlformats-officedocument.presentationml.presentation"}
    [] word = "spreadsheet" ->
         mimeType = "application/vnd.openxmlformats-officedocument.spreadsheetml.sheet"
    [] word = "presentation" ->
         mimeType = "application/vnd.openxmlformats-officedocument.presentationml.presentation"
    [] word = "image/webp" -> mimeType = "image/webp"
    [] word = "video/" -> MimeStartsWith(mimeType, "video/")
    [] OTHER -> FALSE

\* mutant: text files are left out of the File API branch
getFileProcessingStrategyNoText(mimeType, currentModel) ==
  LET isCapableModel == currentModel \in CAPABLE_FILE_MODELS
      isImage == MimeStartsWith(mimeType, "image/")
      isVideo == MimeStartsWith(mimeType, "video/")
      isAudio == MimeStartsWith(mimeType, "audio/")
      isPdf == mimeType = "application/pdf"
      isDocument == \/ MimeIncludes(mimeType, "document")
                    \/ MimeIncludes(mimeType, "spreadsheet")
                    \/ MimeIncludes(mimeType, "presentation")
                    \/ mimeType = "application/msword"
                    \/ mimeType = "application/vnd.ms-excel"
                    \/ mimeType = "application/vnd.ms-powerpoint"
      isText == MimeStartsWith(mimeType, "text/")
      isCodeOrStructuredText == mimeType \in {"application/javascript", "application/json",
                                              "application/xml"}
      isStickerOrAnimation == \/ MimeIncludes(mimeType, "image/webp")
                              \/ MimeIncludes(mimeType, "video/")
                              \/ MimeIncludes(mimeType, "animation/")
      isSupported == isImage \/ isVideo \/ isAudio \/ isPdf \/ isDocument \/ isText
                     \/ isCodeOrStructuredText \/ isStickerOrAnimation
      useInlineData == isImage /\ isCapableModel
  IN [canProcess |-> isCapableModel /\ isSupported,
      useInlineData |-> useInlineData,
      useFileAPI |-> isCapableModel /\
                     (isPdf \/ isVideo \/ isAudio \/ isDocument
                      \/ isCodeOrStructuredText \/ isStickerOrAnimation
                      \/ (isImage /\ ~useInlineData)),
      isSupported |-> isSupported,
      recommendation |-> IF ~isCapableModel THEN "upgrade_model" ELSE "supported"]

getFileProcessingStrategy(mimeType, currentModel) ==
  LET isCapableModel == currentModel \in CAPABLE_FILE_MODELS
      isImage == MimeStartsWith(mimeType, "image/")
      isVideo == MimeStartsWith(mimeType, "video/")
      isAudio == MimeStartsWith(mimeType, "audio/")
      isPdf == mimeType = "application/pdf"
      isDocument == \/ MimeIncludes(mimeType, "document")
                    \/ MimeIncludes(mimeType, "spreadsheet")
                    \/ MimeIncludes(mimeType, "presentation")
                    \/ mimeType = "application/msword"
                    \/ mimeType = "application/vnd.ms-excel"
                    \/ mimeType = "application/vnd.ms-powerpoint"
      isText == MimeStartsWith(mimeType, "text/")
      isCodeOrStructuredText == mimeType \in {"application/javascript", "application/json",
                                              "application/xml"}
      isStickerOrAnimation == \/ MimeIncludes(mimeType, "image/webp")
                              \/ MimeIncludes(mimeType, "video/")
                              \/ MimeIncludes(mimeType, "animation/")
      isSupported == isImage \/ isVideo \/ isAudio \/ isPdf \/ isDocument \/ isText
                     \/ isCodeOrStructuredText \/ isStickerOrAnimation
      useInlineData == isImage /\ isCapableModel
  IN [canProcess |-> isCapableModel /\ isSupported,
      useInlineData |-> useInlineData,
      useFileAPI |-> isCapableModel /\
                     (isPdf \/ isVideo \/ isAudio \/ isDocument \/ isText
                      \/ isCodeOrStructuredText \/ isStickerOrAnimation
                      \/ (isImage /\ ~useInlineData)),
      isSupported |-> isSupported,
      recommendation |-> IF ~isCapableModel THEN "upgrade_model" ELSE "supported"]

(***************************************************************************)
(* Texts are sequences of string pieces: concatenation is \o, '' is << >>. *)
(* The Russian texts of the source are given in English.                   *)
(***************************************************************************)
UserText(n) == <<"user text #", ToString(n)>>
CaptionText(n) == <<"caption #", ToString(n)>>
ReplyText(n) == <<"reply #", ToString(n)>>
SlashText == <<"/", "foo">>

NoAnswerText == <<"Could not get an answer from Gemini.">>
NoTextAnswerText == <<"Could not get a text answer from Gemini.">>
ErrorText == <<"An error occurred while calling the Gemini API.">>
FallbackText == <<"Could not generate an answer. Try again or change the request/settings.">>
ThinkingText == <<"Thinking...">>
UnsupportedText == <<"Sorry, I can only process text, photos, video, documents, ... so far">>
ProblemText == <<"Sorry, there was a problem processing your message.">>
DownloadFailedText == <<"[Could not download the file from Telegram.]">>
EmptyPartsMessage == "contents.parts must not be empty"

\* text.trim().length === 0
IsBlank(text) == \A i \in 1..Len(text) : text[i] \in {"", " "}
\* !text || text.trim().length === 0
IsEmptyOrBlank(text) == text = << >> \/ IsBlank(text)
\* text.startsWith('/') and text.startsWith of the error text
TextStartsWith(text, piece) == Len(text) > 0 /\ text[1] = piece

(***************************************************************************)
(* Content parts and turns.  A part is {text}, {inline_data} or {fileData}.*)
(***************************************************************************)
TextPart(t) == [kind |-> "text", text |-> t, mime_type |-> ""]
InlinePart(mime) == [kind |-> "inline_data", text |-> << >>, mime_type |-> mime]
FilePart(mime) == [kind |-> "fileData", text |-> << >>, mime_type |-> mime]
Turn(role, parts) == [role |-> role, parts |-> parts]

(***************************************************************************)
(* The session of a user, as the defaults middleware creates it.           *)
(***************************************************************************)
DefaultSession ==
  [history |-> << >>,
   systemInstruction |-> "",
   model |-> "gemini-2.5-pro-preview-05-06",
   tools |-> [urlContext |-> FALSE, googleSearch |-> TRUE],
   talkMode |-> TRUE,
   totalTokens |-> 0,
   lastMessageTime |-> 0]

NoMessage == [text |-> << >>, caption |-> << >>, media |-> "none", file_name |-> << >>]

IdleTurn ==
  [pc |-> "idle", user |-> "", id |-> 0, message |-> NoMessage,
   currentUserMessageParts |-> << >>,
   fileName |-> << >>, fileBuffer |-> << >>, mimeType |-> "",
   fileState |-> "", attempts |-> 0,
   \* the remote file of uploadResult.file: "none", "alive" or "deleted"
   file |-> "none",
   contents |-> << >>, tools |-> << >>,
   thinkingMessageId |-> 0,
   geminiResponseText |-> << >>,
   request |-> [model |-> "", systemInstruction |-> ""],
   response |-> [candidates |-> << >>, usageMetadata |-> [present |-> FALSE, totalTokenCount |-> 0]],
   error |-> [hasResponseData |-> FALSE, apiMessage |-> "", message |-> ""],
   path |-> "none",
   sent |-> << >>,
   \* what model.countTokens gave: it threw, or tokenEstimation.totalTokens
   tokenEstimation |-> [thrown |-> FALSE, totalTokens |-> 0],
   \* the promise of a ctx.reply that is not awaited
   floating |-> "none",
   \* the deletion of the thinking message threw (the handler logs it)
   deleteError |-> FALSE,
   \* the settings of the session when the update arrived
   arrival |-> [model |-> "", systemInstruction |-> "", tools |-> << >>, talkMode |-> FALSE,
                flags |-> [urlContext |-> FALSE, googleSearch |-> FALSE]],
   calls |-> [download |-> 0, upload |-> 0, getFile |-> 0, generate |-> 0,
              countTokens |-> 0, deleteMessage |-> 0]]

VARIABLES
  session,   \* session[u]: the session object of user u
  stored,    \* the users whose session object exists
  turn,      \* turn[s]: the invocation of the message handler in slot s
  nextId,    \* the number of the next update
  remoteFiles, \* the number of files alive in the provider's File API
  budget     \* what is left of the exploration bounds

vars == <<session, stored, turn, nextId, remoteFiles, budget>>

Init ==
  /\ session = [u \in Users |-> DefaultSession]
  /\ stored = {}
  /\ turn = [s \in Slots |-> IdleTurn]
  /\ nextId = 1
  /\ remoteFiles = 0
  /\ budget = [updates |-> MaxUpdates, dev |-> MaxDev, overlap |-> FALSE, users |-> {"u1"}]

InitStage ==
  /\ session = [u \in Users |-> DefaultSession]
  /\ stored = {}
  /\ turn = [s \in Slots |-> IdleTurn]
  /\ nextId = 1
  /\ remoteFiles = 0
  /\ budget = [updates |-> MaxStageUpdates, dev |-> MaxStageDev, overlap |-> FALSE, users |-> {"u1"}]

(***************************************************************************)
(* Inbound updates.  fileId is set exactly for the media kinds the handler *)
(* knows; "location" stands for every kind it does not know.               *)
(***************************************************************************)
MediaKinds == {"photo", "video", "document", "voice", "video_note", "audio",
               "animation", "sticker"}
NamedKinds == {"video", "document", "audio", "animation"}
FileNames == {<< >>, <<"report", "PDF">>, <<"archive">>}

PlainMessage(n) == [NoMessage EXCEPT !.text = UserText(n)]

TextMessages(n) ==
  {PlainMessage(n),
   [NoMessage EXCEPT !.text = SlashText],
   [NoMessage EXCEPT !.media = "location"]}

MediaMessages(n) ==
  {m \in [text : {<< >>}, caption : {<< >>, CaptionText(n)}, media : MediaKinds,
          file_name : FileNames] :
     m.media \in NamedKinds \/ m.file_name = << >>}

HasFileId(message) == message.media \in MediaKinds

\* the fileName the handler derives from the kind of the message
FileNameOf(message) ==
  LET fileId == "fileId"
      named(default) == IF message.file_name # << >> THEN message.file_name
                        ELSE <<fileId, default>>
  IN CASE message.media = "photo" -> <<fileId, "jpg">>
       [] message.media = "video" -> named("mp4")
       [] message.media = "document" -> named("dat")
       [] message.media = "voice" -> <<fileId, "ogg">>
       [] message.media = "video_note" -> <<fileId, "mp4">>
       [] message.media = "audio" -> named("mp3")
       [] message.media = "animation" -> named("mp4")
       [] message.media = "sticker" -> <<fileId, "webp">>
       [] OTHER -> << >>

(***************************************************************************)
(* Exploration budget: an input that differs from the plain exchange costs *)
(* one deviation.                                                          *)
(***************************************************************************)
Cost(isDefault) == IF isDefault THEN 0 ELSE 1
\* a media message: one for the attachment, one each for a caption, a file name
\* and a kind other than document
MessageCost(m, n) ==
  IF m.media \in MediaKinds
  THEN 1 + Cost(m.caption = << >>) + Cost(m.file_name = << >>) + Cost(m.media = "document")
  ELSE Cost(m = PlainMessage(n))
CanPay(c) == budget.dev >= c
Pay(c) == [budget EXCEPT !.dev = @ - c]

(***************************************************************************)
(* The synchronous segments of bot.on('message').                          *)
(***************************************************************************)
Say(t, text) == [t EXCEPT !.sent = Append(@, text)]
Called(t, what) == [t EXCEPT !.calls[what] = @ + 1]

\* const model = genAI.getGenerativeModel(...); await model.generateContent(...)
CallGenerate(t, sess) ==
  [Called(t, "generate") EXCEPT
     !.pc = "generate",
     !.request = [model |-> sess.model, systemInstruction |-> sess.systemInstruction]]

\* mutant: the empty-parts check is skipped
AfterFileBlockNoCheck(t, sess) ==
  LET t1 == [t EXCEPT
               !.contents = sess.history \o <<Turn("user", t.currentUserMessageParts)>>,
               !.tools = IF sess.tools.googleSearch THEN <<"googleSearch">> ELSE << >>]
  IN IF sess.talkMode
     THEN [Say(t1, ThinkingText) EXCEPT !.pc = "thinking"]
     ELSE CallGenerate(t1, sess)

\* mutant: the URL-context tool is put on the tools array as well
AfterFileBlockUrlTool(t, sess) ==
  IF Len(t.currentUserMessageParts) = 0
  THEN LET notice == IF t.message.text = << >> /\ t.message.caption = << >>
                        /\ ~HasFileId(t.message)
                     THEN UnsupportedText ELSE ProblemText
       IN [Say(t, notice) EXCEPT !.pc = "done", !.path = "rejected",
                                 !.floating = "pending"]
  ELSE LET t1 == [t EXCEPT
                    !.contents = sess.history \o <<Turn("user", t.currentUserMessageParts)>>,
                    !.tools = (IF sess.tools.googleSearch THEN <<"googleSearch">> ELSE << >>)
                              \o (IF sess.tools.urlContext THEN <<"urlContext">> ELSE << >>)]
       IN IF sess.talkMode
          THEN [Say(t1, ThinkingText) EXCEPT !.pc = "thinking"]
          ELSE CallGenerate(t1, sess)

\* 3. the empty-parts check, 4. contents, 5. tools, 6. the thinking message
AfterFileBlock(t, sess) ==
  IF Len(t.currentUserMessageParts) = 0
  THEN LET notice == IF t.message.text = << >> /\ t.message.caption = << >>
                        /\ ~HasFileId(t.message)
                     THEN UnsupportedText ELSE ProblemText
       IN [Say(t, notice) EXCEPT !.pc = "done", !.path = "rejected",
                                 !.floating = "pending"]
  ELSE LET t1 == [t EXCEPT
                    !.contents = sess.history \o <<Turn("user", t.currentUserMessageParts)>>,
                    !.tools = IF sess.tools.googleSearch THEN <<"googleSearch">> ELSE << >>]
       IN IF sess.talkMode
          THEN [Say(t1, ThinkingText) EXCEPT !.pc = "thinking"]
          ELSE CallGenerate(t1, sess)

\* the handler up to its first await
StartHandler(t, sess) ==
  IF TextStartsWith(t.message.text, "/")
  THEN [t EXCEPT !.pc = "done", !.path = "ignored"]
  ELSE LET text == IF t.message.text # << >> THEN t.message.text ELSE t.message.caption
           t1 == [t EXCEPT !.currentUserMessageParts =
                     IF text # << >> THEN <<TextPart(text)>> ELSE << >>]
       IN IF HasFileId(t.message)
          THEN [Called(t1, "download") EXCEPT !.pc = "download",
                                              !.fileName = FileNameOf(t.message)]
          ELSE AfterFileBlock(t1, sess)

\* mutant: the reply text is sent as it is
SendFinalAsIs(t) == [Say(t, t.geminiResponseText) EXCEPT !.pc = "reply"]

\* the finally block and 10. the final reply
SendFinal(t) ==
  LET text == IF IsEmptyOrBlank(t.geminiResponseText)
                 /\ ~TextStartsWith(t.geminiResponseText, ErrorText[1])
              THEN FallbackText ELSE t.geminiResponseText
  IN [Say(t, text) EXCEPT !.pc = "reply"]

\* mutant: the thinking message is deleted at the end of the try block only
FinallyOnSuccessOnly(t) ==
  IF t.thinkingMessageId # 0 /\ t.path = "success"
  THEN [Called(t, "deleteMessage") EXCEPT !.pc = "deleteMessage"]
  ELSE SendFinal(t)

Finally(t) ==
  IF t.thinkingMessageId # 0
  THEN [Called(t, "deleteMessage") EXCEPT !.pc = "deleteMessage"]
  ELSE SendFinal(t)

(***************************************************************************)
(* 9. the history update of the success path and of the error path.        *)
(***************************************************************************)
\* mutant: the success path stores the model turn before the user turn
PushSuccessSwapped(history, parts, text) ==
  LET h1 == Append(history, Turn("model", <<TextPart(text)>>))
      h2 == Append(h1, Turn("user", parts))
  IN SliceLast(h2, maxHistoryMessages)

\* mutant: the success path stores the model turn only
PushSuccessModelOnly(history, parts, text) ==
  LET h2 == IF text # << >> /\ ~IsBlank(text)
            THEN Append(history, Turn("model", <<TextPart(text)>>))
            ELSE Append(history, Turn("model", <<TextPart(<< >>)>>))
  IN SliceLast(h2, maxHistoryMessages)

\* mutant: an empty reply is stored as a model turn without parts
PushSuccessNoPlaceholder(history, parts, text) ==
  LET h1 == Append(history, Turn("user", parts))
      h2 == IF text # << >> /\ ~IsBlank(text)
            THEN Append(h1, Turn("model", <<TextPart(text)>>))
            ELSE Append(h1, Turn("model", << >>))
  IN SliceLast(h2, maxHistoryMessages)

\* mutant: the cut keeps the oldest turns (slice(0, max) for slice(-max))
PushSuccessKeepsOldest(history, parts, text) ==
  LET h1 == Append(history, Turn("user", parts))
      h2 == IF text # << >> /\ ~IsBlank(text)
            THEN Append(h1, Turn("model", <<TextPart(text)>>))
            ELSE Append(h1, Turn("model", <<TextPart(<< >>)>>))
  IN IF Len(h2) > maxHistoryMessages THEN SubSeq(h2, 1, maxHistoryMessages) ELSE h2

PushSuccess(history, parts, text) ==
  LET h1 == Append(history, Turn("user", parts))
      h2 == IF text # << >> /\ ~IsBlank(text)
            THEN Append(h1, Turn("model", <<TextPart(text)>>))
            ELSE Append(h1, Turn("model", <<TextPart(<< >>)>>))
  IN SliceLast(h2, maxHistoryMessages)

\* mutant: the error path forgets to cut the history
PushErrorNoSlice(history, parts) ==
  IF Len(parts) > 0 THEN Append(history, Turn("user", parts)) ELSE history

\* mutant: the error path pairs the user turn with a placeholder model turn
PushErrorWithPlaceholder(history, parts) ==
  IF Len(parts) > 0
  THEN SliceLast(Append(Append(history, Turn("user", parts)),
                        Turn("model", <<TextPart(<< >>)>>)), maxHistoryMessages)
  ELSE history

PushError(history, parts) ==
  IF Len(parts) > 0
  THEN SliceLast(Append(history, Turn("user", parts)), maxHistoryMessages)
  ELSE history

(***************************************************************************)
(* The provider's answers.                                                 *)
(***************************************************************************)
TextCandidate(text) == [parts |-> <<[isText |-> TRUE, text |-> text]>>]
NonTextCandidate == [parts |-> <<[isText |-> FALSE, text |-> << >>]>>]
TwoPartCandidate(text) == [parts |-> <<[isText |-> TRUE, text |-> text],
                                       [isText |-> FALSE, text |-> << >>],
                                       [isText |-> TRUE, text |-> <<" more">>]>>]
NoUsage == [present |-> FALSE, totalTokenCount |-> 0]
Usage(n) == [present |-> TRUE, totalTokenCount |-> n]

PlainResponse(n) == [candidates |-> <<TextCandidate(ReplyText(n))>>, usageMetadata |-> Usage(1)]

Responses(n) ==
  {[candidates |-> c, usageMetadata |-> u] :
     c \in {<<TextCandidate(ReplyText(n))>>, <<TwoPartCandidate(ReplyText(n))>>,
            <<TextCandidate(<<" ">>)>>, <<NonTextCandidate>>,
            <<[parts |-> << >>]>>, << >>},
     u \in {Usage(1), Usage(0), NoUsage}}

\* an exception of generateContent: error.response.data.error.message, error.message
ProviderErrors ==
  {e \in [hasResponseData : BOOLEAN, apiMessage : {"", "quota", EmptyPartsMessage},
          message : {"", "fetch failed"}] :
     e.hasResponseData \/ e.apiMessage = ""}

PlainError == [hasResponseData |-> FALSE, apiMessage |-> "", message |-> "fetch failed"]

ResponseCost(response, n) ==
  Cost(response.candidates = PlainResponse(n).candidates)
  + Cost(response.usageMetadata = PlainResponse(n).usageMetadata)

\* 7. the text of the response
RECURSIVE JoinTexts(_)
JoinTexts(parts) ==
  IF parts = << >> THEN << >>
  ELSE (IF parts[1].isText THEN parts[1].text ELSE << >>) \o JoinTexts(Tail(parts))

ExtractText(response) ==
  IF Len(response.candidates) > 0 /\ Len(response.candidates[1].parts) > 0
  THEN JoinTexts(response.candidates[1].parts)
  ELSE NoTextAnswerText

\* the text of the catch block
ErrorReply(error) ==
  IF error.hasResponseData
  THEN (IF error.apiMessage # "" THEN ErrorText \o <<" API error: ", error.apiMessage>>
        ELSE ErrorText)
  ELSE IF error.message # "" THEN ErrorText \o <<" Error: ", error.message>>
  ELSE ErrorText

(***************************************************************************)
(* Attachment staging: the file block of the handler and                   *)
(* uploadFileToGemini, cut at the awaits of download, upload and poll.     *)
(***************************************************************************)
PngBuffer == <<137, 80, 78, 71, 13, 10, 26, 10>>
PdfBuffer == <<37, 80, 68, 70, 45, 49, 46, 55>>
ZipBuffer == <<80, 75, 3, 4, 20, 0, 0, 0>>
WaveBuffer == <<82, 73, 70, 70, 36, 0, 0, 0, 87, 65, 86, 69>>
UnknownBuffer == <<0, 1, 2, 3, 4, 5, 6, 7>>
ShortBuffer == <<37, 80>>
Buffers == {PngBuffer, PdfBuffer, ZipBuffer, WaveBuffer, UnknownBuffer, ShortBuffer}

FileStates == {"PROCESSING", "ACTIVE", "FAILED", "STATE_UNSPECIFIED"}

FileApiFailedText(mime, reason) ==
  <<"[Could not process the file (", mime, ") for the Gemini File API. Reason: ", reason, ".]">>

UnsupportedFileText(mime, model, recommendation) ==
  <<"[A file of type ", mime, " is not supported by the selected model (", model,
    ") or the processing method.]">>
  \o (IF recommendation = "upgrade_model"
      THEN <<" For better support try a stronger model, such as 'pro2.5' or 'flash2.5'.">>
      ELSE << >>)

AddPart(t, part) == [t EXCEPT !.currentUserMessageParts = Append(@, part)]

\* the return value of uploadFileToGemini, from the last state of the file
UploadResult(fileState) ==
  IF fileState = "ACTIVE" THEN [success |-> TRUE, error |-> ""]
  ELSE IF fileState = "FAILED" THEN [success |-> FALSE, error |-> "processing_failed"]
  ELSE [success |-> FALSE, error |-> "processing_timeout_or_unexpected_state"]

UploadException == [success |-> FALSE, error |-> "upload_exception"]

\* mutant: a file that did not become ACTIVE is deleted again
AfterUploadDeleting(t, sess, uploadResult) ==
  AfterFileBlock(
    IF uploadResult.success
    THEN AddPart(t, FilePart(t.mimeType))
    ELSE AddPart([t EXCEPT !.file = IF @ = "alive" THEN "deleted" ELSE @],
                 TextPart(FileApiFailedText(t.mimeType, uploadResult.error))),
    sess)

\* the handler, from the return of uploadFileToGemini on
AfterUpload(t, sess, uploadResult) ==
  AfterFileBlock(
    IF uploadResult.success
    THEN AddPart(t, FilePart(t.mimeType))
    ELSE AddPart(t, TextPart(FileApiFailedText(t.mimeType, uploadResult.error))),
    sess)

\* mutant: the File API branch is tried before the inline branch
AfterDownloadUploadFirst(t, sess, downloaded, fileBuffer) ==
  IF ~downloaded
  THEN AfterFileBlock(AddPart(t, TextPart(DownloadFailedText)), sess)
  ELSE LET detectedMimeType == detectMimeType(fileBuffer, t.fileName)
           currentModel == sess.model
           strategy == getFileProcessingStrategy(detectedMimeType, currentModel)
           t1 == [t EXCEPT !.fileBuffer = fileBuffer, !.mimeType = detectedMimeType]
       IN IF strategy.canProcess
          THEN IF strategy.useFileAPI
               THEN [Called(t1, "upload") EXCEPT !.pc = "upload"]
               ELSE IF strategy.useInlineData
               THEN AfterFileBlock(AddPart(t1, InlinePart(detectedMimeType)), sess)
               ELSE AfterFileBlock(t1, sess)
          ELSE AfterFileBlock(
                 AddPart(t1, TextPart(UnsupportedFileText(detectedMimeType, currentModel,
                                                          strategy.recommendation))),
                 sess)

\* mutant: a failed download adds no part
AfterDownloadSilent(t, sess, downloaded, fileBuffer) ==
  IF ~downloaded
  THEN AfterFileBlock(t, sess)
  ELSE LET detectedMimeType == detectMimeType(fileBuffer, t.fileName)
           strategy == getFileProcessingStrategy(detectedMimeType, sess.model)
           t1 == [t EXCEPT !.fileBuffer = fileBuffer, !.mimeType = detectedMimeType]
       IN IF strategy.canProcess /\ strategy.useInlineData
          THEN AfterFileBlock(AddPart(t1, InlinePart(detectedMimeType)), sess)
          ELSE IF strategy.canProcess /\ strategy.useFileAPI
          THEN [Called(t1, "upload") EXCEPT !.pc = "upload"]
          ELSE AfterFileBlock(t1, sess)

\* the handler, from the return of downloadFileBuffer to its next await
AfterDownload(t, sess, downloaded, fileBuffer) ==
  IF ~downloaded
  THEN AfterFileBlock(AddPart(t, TextPart(DownloadFailedText)), sess)
  ELSE LET detectedMimeType == detectMimeType(fileBuffer, t.fileName)
           currentModel == sess.model
           strategy == getFileProcessingStrategy(detectedMimeType, currentModel)
           t1 == [t EXCEPT !.fileBuffer = fileBuffer, !.mimeType = detectedMimeType]
       IN IF strategy.canProcess
          THEN IF strategy.useInlineData
               THEN AfterFileBlock(AddPart(t1, InlinePart(detectedMimeType)), sess)
               ELSE IF strategy.useFileAPI
               THEN [Called(t1, "upload") EXCEPT !.pc = "upload"]
               ELSE AfterFileBlock(t1, sess)
          ELSE AfterFileBlock(
                 AddPart(t1, TextPart(UnsupportedFileText(detectedMimeType, currentModel,
                                                          strategy.recommendation))),
                 sess)

\* uploadFileToGemini, from the return of fileService.uploadFile on
AfterUploadFile(t, sess, fileState) ==
  LET t1 == [t EXCEPT !.file = "alive", !.fileState = fileState]
  IN IF fileState = "PROCESSING" /\ 0 < maxAttempts
     THEN [Called(t1, "getFile") EXCEPT !.pc = "poll", !.attempts = 0]
     ELSE AfterUpload(t1, sess, UploadResult(fileState))

\* mutant: the polling loop allows one attempt too many
AfterGetFileOffByOne(t, sess, fileState) ==
  LET attempts == t.attempts + 1
      t1 == [t EXCEPT !.fileState = fileState, !.attempts = attempts]
  IN IF fileState = "PROCESSING" /\ attempts <= maxAttempts
     THEN [Called(t1, "getFile") EXCEPT !.pc = "poll"]
     ELSE AfterUpload(t1, sess, UploadResult(fileState))

\* mutant: the polling loop goes on until the file is ACTIVE
AfterGetFileUntilActive(t, sess, fileState) ==
  LET attempts == t.attempts + 1
      t1 == [t EXCEPT !.fileState = fileState, !.attempts = attempts]
  IN IF fileState # "ACTIVE" /\ attempts < maxAttempts
     THEN [Called(t1, "getFile") EXCEPT !.pc = "poll"]
     ELSE AfterUpload(t1, sess, UploadResult(fileState))

\* mutant: the attempt counter starts over instead of ending the loop
AfterGetFileNoBound(t, sess, fileState) ==
  LET attempts == (t.attempts % maxAttempts) + 1
      t1 == [t EXCEPT !.fileState = fileState, !.attempts = attempts]
  IN IF fileState = "PROCESSING"
     THEN [t1 EXCEPT !.pc = "poll"]
     ELSE AfterUpload(t1, sess, UploadResult(fileState))

\* uploadFileToGemini, from the return of fileService.getFile on
AfterGetFile(t, sess, fileState) ==
  LET attempts == t.attempts + 1
      t1 == [t EXCEPT !.fileState = fileState, !.attempts = attempts]
  IN IF fileState = "PROCESSING" /\ attempts < maxAttempts
     THEN [Called(t1, "getFile") EXCEPT !.pc = "poll"]
     ELSE AfterUpload(t1, sess, UploadResult(fileState))

(***************************************************************************)
(* Actions.                                                                *)
(***************************************************************************)
Busy(s) == turn[s].pc \notin {"idle", "done"} \/ turn[s].floating = "pending"

\* the tools array of step 5, for the settings of a session
ToolsOf(sess) == IF sess.tools.googleSearch THEN <<"googleSearch">> ELSE << >>

\* mutant: the middleware initialises the session on every update
ArrivedAfresh(u) == [DefaultSession EXCEPT !.lastMessageTime = nextId]

\* the session as the middlewares hand it to a handler
Arrived(u) ==
  [(IF u \in stored THEN session[u] ELSE DefaultSession) EXCEPT !.lastMessageTime = nextId]

\* mutant: the session store keeps one session object for all users
ReceiveOneSession(s, u, m) ==
  LET cost == MessageCost(m, nextId) + Cost(\A r \in Slots : ~Busy(r))
      sess == [(IF stored # {} THEN session[u] ELSE DefaultSession)
                 EXCEPT !.lastMessageTime = nextId]
      t0 == [IdleTurn EXCEPT
               !.user = u, !.id = nextId, !.message = m,
               !.arrival = [model |-> sess.model,
                            systemInstruction |-> sess.systemInstruction,
                            tools |-> ToolsOf(sess), talkMode |-> sess.talkMode,
                              flags |-> sess.tools]]
  IN /\ ~Busy(s)
     /\ u \in budget.users
     /\ \A r \in Slots : Busy(r) => (budget.overlap /\ r # s)
     /\ s = "s1" \/ Busy("s1")
     /\ budget.updates > 0
     /\ CanPay(cost)
     /\ session' = [v \in Users |-> sess]
     /\ stored' = stored \cup {u}
     /\ turn' = [turn EXCEPT ![s] = StartHandler(t0, sess)]
     /\ nextId' = nextId + 1
     /\ budget' = [budget EXCEPT !.updates = @ - 1, !.dev = @ - cost]
     /\ UNCHANGED remoteFiles

\* the session middlewares, then the message handler up to its first await
Receive(s, u, m) ==
  LET cost == MessageCost(m, nextId) + Cost(\A r \in Slots : ~Busy(r))
      sess == Arrived(u)
      t0 == [IdleTurn EXCEPT
               !.user = u, !.id = nextId, !.message = m,
               !.arrival = [model |-> sess.model,
                            systemInstruction |-> sess.systemInstruction,
                            tools |-> ToolsOf(sess), talkMode |-> sess.talkMode,
                              flags |-> sess.tools]]
  IN /\ ~Busy(s)
     /\ u \in budget.users
     \* the first free slot; a second invocation only where updates overlap
     /\ \A r \in Slots : Busy(r) => (budget.overlap /\ r # s)
     /\ s = "s1" \/ Busy("s1")
     /\ budget.updates > 0
     /\ CanPay(cost)
     /\ session' = [session EXCEPT ![u] = sess]
     /\ stored' = stored \cup {u}
     /\ turn' = [turn EXCEPT ![s] = StartHandler(t0, sess)]
     /\ nextId' = nextId + 1
     /\ budget' = [budget EXCEPT !.updates = @ - 1, !.dev = @ - cost]
     /\ UNCHANGED remoteFiles

ArriveText ==
  \E s \in Slots, u \in Users : \E m \in TextMessages(nextId) : Receive(s, u, m)

ArriveMedia ==
  \E s \in Slots, u \in Users : \E m \in MediaMessages(nextId) : Receive(s, u, m)

\* the files alive after a step that takes an invocation from t to t1
FilesAfter(t, t1) ==
  remoteFiles + (IF t.file = "none" /\ t1.file = "alive" THEN 1 ELSE 0)
              - (IF t.file = "alive" /\ t1.file = "deleted" THEN 1 ELSE 0)

Step(s, pc, cost, t1, sess1) ==
  /\ turn[s].pc = pc
  /\ CanPay(cost)
  /\ turn' = [turn EXCEPT ![s] = t1]
  /\ session' = [session EXCEPT ![turn[s].user] = sess1]
  /\ budget' = Pay(cost)
  /\ remoteFiles' = FilesAfter(turn[s], t1)
  /\ UNCHANGED <<stored, nextId>>

DownloadReturns ==
  \E s \in Slots, downloaded \in BOOLEAN, fileBuffer \in Buffers :
    LET t == turn[s]
        sess == session[t.user]
    IN /\ downloaded \/ fileBuffer = PdfBuffer
       /\ Step(s, "download", Cost(downloaded /\ fileBuffer = PdfBuffer),
               AfterDownload(t, sess, downloaded, fileBuffer), sess)

UploadReturns ==
  \E s \in Slots, fileState \in FileStates \cup {"throws"} :
    LET t == turn[s]
        sess == session[t.user]
    IN /\ turn[s].pc = "upload"
       /\ Step(s, "upload", Cost(fileState \in {"PROCESSING", "ACTIVE"}),
               IF fileState = "throws" THEN AfterUpload(t, sess, UploadException)
               ELSE AfterUploadFile(t, sess, fileState),
               sess)

PollReturns ==
  \E s \in Slots, fileState \in FileStates \cup {"throws"} :
    LET t == turn[s]
        sess == session[t.user]
    IN /\ turn[s].pc = "poll"
       /\ Step(s, "poll", Cost(fileState \in {"PROCESSING", "ACTIVE"}),
               IF fileState = "throws" THEN AfterUpload(t, sess, UploadException)
               ELSE AfterGetFile(t, sess, fileState),
               sess)

ThinkingReturns ==
  \E s \in Slots, ok \in BOOLEAN :
    LET t == turn[s]
        sess == session[t.user]
    IN /\ turn[s].pc = "thinking"
       /\ Step(s, "thinking", Cost(ok),
               CallGenerate([t EXCEPT !.thinkingMessageId = IF ok THEN t.id ELSE 0], sess),
               sess)

\* generateContent resolves: 7. text, 8. tokens, 9. history, finally
GenerateResolves ==
  \E s \in Slots :
    LET t == turn[s]
        sess == session[t.user]
    IN \E response \in Responses(t.id) :
         LET text == ExtractText(response)
             t1 == [t EXCEPT !.response = response, !.geminiResponseText = text]
         IN Step(s, "generate", ResponseCost(response, t.id),
                 IF response.usageMetadata.present
                 THEN Finally([t1 EXCEPT !.path = "success"])
                 ELSE [Called(t1, "countTokens") EXCEPT !.pc = "countTokens"],
                 IF response.usageMetadata.present
                 THEN [sess EXCEPT
                         !.totalTokens = @ + response.usageMetadata.totalTokenCount,
                         !.history = PushSuccess(@, t.currentUserMessageParts, text)]
                 ELSE sess)

CountedTokens == {0, 2}

\* mutant: an exception of countTokens is taken for a failure of the call
CountTokensFatal ==
  \E s \in Slots, counted \in BOOLEAN, totalTokens \in CountedTokens :
    LET t == turn[s]
        sess == session[t.user]
        estimation == [thrown |-> ~counted, totalTokens |-> IF counted THEN totalTokens ELSE 0]
    IN /\ turn[s].pc = "countTokens"
       /\ Step(s, "countTokens", Cost(counted /\ totalTokens = 2),
               IF counted
               THEN Finally([t EXCEPT !.path = "success", !.tokenEstimation = estimation])
               ELSE Finally([t EXCEPT !.path = "error", !.tokenEstimation = estimation,
                                      !.geminiResponseText = ErrorText]),
               IF counted
               THEN [sess EXCEPT
                       !.totalTokens = @ + totalTokens,
                       !.history = PushSuccess(@, t.currentUserMessageParts,
                                               t.geminiResponseText)]
               ELSE [sess EXCEPT !.history = PushError(@, t.currentUserMessageParts)])

\* countTokens returns or throws: 8. tokens, 9. history, finally
CountTokensReturns ==
  \E s \in Slots, counted \in BOOLEAN, totalTokens \in CountedTokens :
    LET t == turn[s]
        sess == session[t.user]
        estimation == [thrown |-> ~counted, totalTokens |-> IF counted THEN totalTokens ELSE 0]
    IN /\ turn[s].pc = "countTokens"
       /\ Step(s, "countTokens", Cost(counted /\ totalTokens = 2),
               Finally([t EXCEPT !.path = "success", !.tokenEstimation = estimation]),
               [sess EXCEPT
                  !.totalTokens = IF counted THEN @ + totalTokens ELSE @,
                  !.history = PushSuccess(@, t.currentUserMessageParts, t.geminiResponseText)])

\* mutant: a rejected generateContent is called a second time
GenerateRejectsRetrying ==
  \E s \in Slots, error \in ProviderErrors :
    LET t == turn[s]
        sess == session[t.user]
    IN /\ turn[s].pc = "generate"
       /\ Step(s, "generate", 1 + Cost(error = PlainError),
               IF t.calls.generate < 2
               THEN Called(t, "generate")
               ELSE Finally([t EXCEPT !.error = error,
                                      !.geminiResponseText = ErrorReply(error),
                                      !.path = "error"]),
               IF t.calls.generate < 2 THEN sess
               ELSE [sess EXCEPT !.history = PushError(@, t.currentUserMessageParts)])

\* generateContent rejects: the catch block, finally
GenerateRejects ==
  \E s \in Slots, error \in ProviderErrors :
    LET t == turn[s]
        sess == session[t.user]
    IN /\ turn[s].pc = "generate"
       /\ Step(s, "generate", 1 + Cost(error = PlainError),
               Finally([t EXCEPT !.error = error, !.geminiResponseText = ErrorReply(error),
                                 !.path = "error"]),
               [sess EXCEPT !.history = PushError(@, t.currentUserMessageParts)])

DeleteReturns ==
  \E s \in Slots, ok \in BOOLEAN :
    LET t == turn[s]
    IN /\ turn[s].pc = "deleteMessage"
       /\ Step(s, "deleteMessage", Cost(ok),
               SendFinal([t EXCEPT !.deleteError = ~ok]), session[t.user])

\* the reply of the empty-parts check, which the handler does not await,
\* resolves or rejects
NoticeReturns ==
  \E s \in Slots, ok \in BOOLEAN :
    /\ turn[s].floating = "pending"
    /\ CanPay(Cost(ok))
    /\ turn' = [turn EXCEPT ![s].floating = IF ok THEN "resolved" ELSE "rejected"]
    /\ budget' = Pay(Cost(ok))
    /\ UNCHANGED <<session, stored, nextId, remoteFiles>>

ReplyReturns ==
  \E s \in Slots, ok \in BOOLEAN :
    LET t == turn[s]
    IN /\ turn[s].pc = "reply"
       /\ Step(s, "reply", Cost(ok), [t EXCEPT !.pc = "done"], session[t.user])

(***************************************************************************)
(* The command handlers.  Each runs behind the session middlewares and is  *)
(* synchronous; its reply is not awaited and changes nothing of the state. *)
(***************************************************************************)
\* mutant: /newchat starts the token counter again
NewChatResetsTokens(sess) ==
  [sess EXCEPT !.history = << >>, !.systemInstruction = "", !.totalTokens = 0]

\* mutant: /newchat forgets the system instruction
NewChatKeepsInstruction(sess) == [sess EXCEPT !.history = << >>]

\* bot.command('newchat')
NewChatSession(sess) == [sess EXCEPT !.history = << >>, !.systemInstruction = ""]

\* bot.command('setsysteminstruction'), instruction is the trimmed argument
SetSystemInstructionSession(sess, instruction) ==
  IF instruction # "" THEN [sess EXCEPT !.systemInstruction = instruction]
  ELSE [sess EXCEPT !.systemInstruction = ""]

ToggleTalkModeSession(sess) == [sess EXCEPT !.talkMode = ~@]

ToggleUrlContextSession(sess) == [sess EXCEPT !.tools.urlContext = ~@]

\* mutant: /togglegrounding flips both tool flags
ToggleGroundingBoth(sess) ==
  [sess EXCEPT !.tools.googleSearch = ~@, !.tools.urlContext = ~@]

ToggleGroundingSession(sess) == [sess EXCEPT !.tools.googleSearch = ~@]

\* mutant: /setmodel stores a name it does not know as it was typed
SetModelAsTyped(sess, modelName) ==
  IF modelName = "" THEN sess
  ELSE IF modelName \in DOMAIN MODEL_ALIASES
          /\ MODEL_ALIASES[modelName] \in DOMAIN AVAILABLE_MODELS
       THEN [sess EXCEPT !.model = AVAILABLE_MODELS[MODEL_ALIASES[modelName]]]
       ELSE [sess EXCEPT !.model = modelName]

\* bot.command('setmodel'), modelName is the trimmed, lower-cased argument
SetModelSession(sess, modelName) ==
  IF modelName = "" THEN sess
  ELSE IF modelName \in DOMAIN MODEL_ALIASES
          /\ MODEL_ALIASES[modelName] \in DOMAIN AVAILABLE_MODELS
       THEN [sess EXCEPT !.model = AVAILABLE_MODELS[MODEL_ALIASES[modelName]]]
       ELSE sess

Instructions == {"", "be brief"}
ModelNames == (DOMAIN MODEL_ALIASES) \cup {"", "gpt-4"}

Command(u, cost, sess1) ==
  /\ u \in budget.users
  /\ CanPay(cost)
  /\ session' = [session EXCEPT ![u] = sess1]
  /\ stored' = stored \cup {u}
  /\ nextId' = nextId + 1
  /\ budget' = [budget EXCEPT !.updates = @ - 1, !.dev = @ - cost]
  /\ UNCHANGED <<turn, remoteFiles>>

NewChat ==
  \E u \in Users :
    /\ budget.updates > 0
    /\ Command(u, 0, NewChatSession(Arrived(u)))

SetSystemInstruction ==
  \E u \in Users, instruction \in Instructions :
    /\ budget.updates > 0
    /\ Command(u, Cost(instruction # ""), SetSystemInstructionSession(Arrived(u), instruction))

ToggleTalkMode ==
  \E u \in Users :
    /\ budget.updates > 0
    /\ Command(u, 0, ToggleTalkModeSession(Arrived(u)))

ToggleUrlContext ==
  \E u \in Users :
    /\ budget.updates > 0
    /\ Command(u, 1, ToggleUrlContextSession(Arrived(u)))

ToggleGrounding ==
  \E u \in Users :
    /\ budget.updates > 0
    /\ Command(u, 0, ToggleGroundingSession(Arrived(u)))

SetModel ==
  \E u \in Users, modelName \in ModelNames :
    /\ budget.updates > 0
    /\ Command(u, Cost(modelName = "flash"), SetModelSession(Arrived(u), modelName))

\* /start, /help, /supportedformats, /showtokens: a reply and nothing else
ShowInfo ==
  \E u \in Users :
    /\ budget.updates > 0
    /\ Command(u, 1, Arrived(u))

Next ==
  \/ ArriveText
  \/ ThinkingReturns
  \/ GenerateResolves
  \/ CountTokensReturns
  \/ GenerateRejects
  \/ DeleteReturns
  \/ ReplyReturns
  \/ NoticeReturns

Spec == Init /\ [][Next]_vars

NextStage ==
  \/ ArriveText
  \/ ArriveMedia
  \/ DownloadReturns
  \/ UploadReturns
  \/ PollReturns
  \/ ThinkingReturns
  \/ GenerateResolves
  \/ CountTokensReturns
  \/ GenerateRejects
  \/ DeleteReturns
  \/ ReplyReturns
  \/ NoticeReturns

SpecStage == InitStage /\ [][NextStage]_vars

(***************************************************************************)
(* The placement of an attachment, as a function of the file, its name and *)
(* the selected model: the inputs are drawn in InitPlace.  The model is one *)
(* of AVAILABLE_MODELS or a model that is not in CAPABLE_FILE_MODELS (which *)
(* getFileProcessingStrategy accepts, though no command selects it).       *)
(***************************************************************************)
WebpBuffer == <<82, 73, 70, 70, 36, 0, 0, 0, 87, 69, 66, 80>>
JpegBuffer == <<255, 216, 255, 224, 0, 16, 74, 70>>
OleBuffer == <<208, 207, 17, 224, 161, 177, 26, 225>>
\* the PNG signature alone, and followed by the bytes of 'ftyp'
Png4Buffer == <<137, 80, 78, 71>>
PngFtypBuffer == <<137, 80, 78, 71, 102, 116, 121, 112>>
PlaceBuffers ==
  Buffers \cup {WebpBuffer, JpegBuffer, OleBuffer, Png4Buffer, PngFtypBuffer}
PlaceFileNames ==
  {<<"a", "docx">>, <<"a", "doc">>, <<"a", "txt">>, <<"a", "json">>, <<"a", "zip">>,
   <<"a", "mp4">>, <<"a", "mp3">>, <<"a", "dat">>}
PlaceModels == {AVAILABLE_MODELS[a] : a \in DOMAIN AVAILABLE_MODELS} \cup {"gemini-1.0-pro"}

\* a document has arrived and its download is awaited
InitPlace ==
  \E model \in PlaceModels, fileName \in PlaceFileNames :
    LET sess == [DefaultSession EXCEPT !.model = model, !.lastMessageTime = 1]
        m == [NoMessage EXCEPT !.media = "document", !.file_name = fileName]
        t0 == [IdleTurn EXCEPT
                 !.user = "u1", !.id = 1, !.message = m,
                 !.arrival = [model |-> sess.model,
                              systemInstruction |-> sess.systemInstruction,
                              tools |-> ToolsOf(sess), talkMode |-> sess.talkMode,
                              flags |-> sess.tools]]
    IN /\ session = [u \in Users |-> IF u = "u1" THEN sess ELSE DefaultSession]
       /\ stored = {"u1"}
       /\ turn = [s \in Slots |-> IF s = "s1" THEN StartHandler(t0, sess) ELSE IdleTurn]
       /\ nextId = 2
       /\ remoteFiles = 0
       /\ budget = [updates |-> 0, dev |-> MaxPlaceDev, overlap |-> FALSE, users |-> {"u1"}]

\* downloadFileBuffer returns the file
Place ==
  \E s \in Slots, fileBuffer \in PlaceBuffers :
    LET t == turn[s]
        sess == session[t.user]
    IN /\ turn[s].pc = "download"
       /\ Step(s, "download", 0, AfterDownload(t, sess, TRUE, fileBuffer), sess)

NextPlace ==
  \/ Place
  \/ UploadReturns
  \/ PollReturns
  \/ ThinkingReturns
  \/ GenerateResolves
  \/ CountTokensReturns
  \/ GenerateRejects
  \/ DeleteReturns
  \/ ReplyReturns

SpecPlace == InitPlace /\ [][NextPlace]_vars

\* updates of two users, whose handler invocations may overlap
InitIso ==
  /\ session = [u \in Users |-> DefaultSession]
  /\ stored = {}
  /\ turn = [s \in Slots |-> IdleTurn]
  /\ nextId = 1
  /\ remoteFiles = 0
  /\ budget = [updates |-> MaxIsoUpdates, dev |-> MaxIsoDev, overlap |-> TRUE, users |-> Users]

SpecIso == InitIso /\ [][Next]_vars

\* attachments and commands
InitFiles ==
  /\ session = [u \in Users |-> DefaultSession]
  /\ stored = {}
  /\ turn = [s \in Slots |-> IdleTurn]
  /\ nextId = 1
  /\ remoteFiles = 0
  /\ budget = [updates |-> MaxFileUpdates, dev |-> MaxFileDev, overlap |-> FALSE,
               users |-> {"u1"}]

NextFiles ==
  \/ NextStage
  \/ NewChat
  \/ SetSystemInstruction
  \/ ToggleTalkMode
  \/ ToggleUrlContext
  \/ ToggleGrounding
  \/ SetModel
  \/ ShowInfo

SpecFiles == InitFiles /\ [][NextFiles]_vars

\* messages of one user, one at a time, and /newchat as the only command
InitNewChat ==
  /\ session = [u \in Users |-> DefaultSession]
  /\ stored = {}
  /\ turn = [s \in Slots |-> IdleTurn]
  /\ nextId = 1
  /\ remoteFiles = 0
  /\ budget = [updates |-> MaxNewChatUpdates, dev |-> MaxNewChatDev, overlap |-> FALSE,
               users |-> {"u1"}]

NextNewChat ==
  \/ Next
  \/ NewChat

SpecNewChat == InitNewChat /\ [][NextNewChat]_vars

\* every external call of the handler eventually returns or throws
MaxLiveUpdates == 1
MaxLiveDev == 2

InitLive ==
  /\ session = [u \in Users |-> DefaultSession]
  /\ stored = {}
  /\ turn = [s \in Slots |-> IdleTurn]
  /\ nextId = 1
  /\ remoteFiles = 0
  /\ budget = [updates |-> MaxLiveUpdates, dev |-> MaxLiveDev, overlap |-> FALSE,
               users |-> {"u1"}]

SpecLive ==
  /\ InitLive
  /\ [][NextStage]_vars
  /\ WF_vars(DownloadReturns)
  /\ WF_vars(UploadReturns)
  /\ WF_vars(PollReturns)
  /\ WF_vars(ThinkingReturns)
  /\ WF_vars(GenerateResolves \/ GenerateRejects)
  /\ WF_vars(CountTokensReturns)
  /\ WF_vars(DeleteReturns)
  /\ WF_vars(ReplyReturns)
  /\ WF_vars(NoticeReturns)

\* messages and commands of one user, whose updates may overlap
InitCmd ==
  /\ session = [u \in Users |-> DefaultSession]
  /\ stored = {}
  /\ turn = [s \in Slots |-> IdleTurn]
  /\ nextId = 1
  /\ remoteFiles = 0
  /\ budget = [updates |-> MaxCmdUpdates, dev |-> MaxCmdDev, overlap |-> TRUE, users |-> {"u1"}]

NextCmd ==
  \/ ArriveText
  \/ ThinkingReturns
  \/ GenerateResolves
  \/ CountTokensReturns
  \/ GenerateRejects
  \/ DeleteReturns
  \/ ReplyReturns
  \/ NoticeReturns
  \/ NewChat
  \/ SetSystemInstruction
  \/ ToggleTalkMode
  \/ ToggleUrlContext
  \/ ToggleGrounding
  \/ SetModel
  \/ ShowInfo

SpecCmd == InitCmd /\ [][NextCmd]_vars

(***************************************************************************)
(* Properties.                                                             *)
(***************************************************************************)
History(u) == session[u].history
Last(seq) == seq[Len(seq)]
UserTurnOf(t) == Turn("user", t.currentUserMessageParts)

\* C1: every session's history holds at most maxHistoryMessages (20) turns
\* in every state the handler leaves behind, on the success path and on the
\* error path.
C1_BoundedHistory ==
  \A u \in Users : Len(History(u)) <= maxHistoryMessages

\* a failed call has just evicted the oldest turn of a full history
C1_Witness ==
  \E s \in Slots :
    /\ turn[s].path = "error"
    /\ Len(History(turn[s].user)) = maxHistoryMessages
    /\ History(turn[s].user)[1].role = "model"

\* C2: after a successful append or an empty-reply append, the turn at
\* 0-based index i of the history has role "user" exactly when i is even.
Alternates(h) ==
  \A i \in 1..Len(h) : (h[i].role = "user") <=> (i % 2 = 1)

C2_AlternationAfterAppend ==
  \A s \in Slots :
    turn[s].path = "success" => Alternates(History(turn[s].user))

\* C3: the history never holds two adjacent user turns.
C3_NoAdjacentUserTurns ==
  \A u \in Users :
    \A i \in 1..(Len(History(u)) - 1) :
      ~(History(u)[i].role = "user" /\ History(u)[i + 1].role = "user")

\* C4: when the provider call failed with a 'parts must not be empty' error,
\* the history has length 0 once the turn is finished and the reply tells the
\* user to start a new conversation.
IsEmptyPartsError(error) == error.hasResponseData /\ error.apiMessage = EmptyPartsMessage
NewChatGuidance == "Start a new chat with /newchat."

C4_InvalidPromptClearsHistory ==
  \A s \in Slots :
    (turn[s].pc = "done" /\ turn[s].path = "error" /\ IsEmptyPartsError(turn[s].error))
      => /\ Len(History(turn[s].user)) = 0
         /\ \E i \in 1..Len(turn[s].sent) :
              \E j \in 1..Len(turn[s].sent[i]) : turn[s].sent[i][j] = NewChatGuidance

\* C5: when the call succeeds and the response has no candidates or no
\* text-bearing parts, the history ends with the user turn followed by a model
\* turn whose single text part is the empty string.
NoTextInResponse(response) ==
  \/ Len(response.candidates) = 0
  \/ \A i \in 1..Len(response.candidates[1].parts) :
       ~response.candidates[1].parts[i].isText

C5_EmptyReplyPlaceholder ==
  \A s \in Slots :
    (turn[s].path = "success" /\ NoTextInResponse(turn[s].response))
      => LET h == History(turn[s].user)
         IN /\ Len(h) >= 2
            /\ h[Len(h) - 1] = UserTurnOf(turn[s])
            /\ h[Len(h)] = Turn("model", <<TextPart(<< >>)>>)

\* C10: when the processing of an update has ended, at least one chat
\* message to the user was attempted.
C10_NoSilentDrop ==
  \A s \in Slots : turn[s].pc = "done" => Len(turn[s].sent) >= 1

\* C6: a provider call that fails for a reason other than a structurally
\* invalid prompt appends exactly the current user turn and no model turn; the
\* turns the history held before are kept, but for the oldest one when the
\* history was full.
FailsNow(s) ==
  /\ turn[s].pc = "generate"
  /\ turn'[s].path = "error"
  /\ ~IsEmptyPartsError(turn'[s].error)

C6_FailureAppendsUserTurnOnly ==
  [][\A s \in Slots :
       FailsNow(s) =>
         LET h == History(turn[s].user)
             g == session'[turn[s].user].history
             kept == IF Len(h) < maxHistoryMessages THEN h ELSE Tail(h)
         IN /\ Len(g) = Len(kept) + 1
            /\ SubSeq(g, 1, Len(kept)) = kept
            /\ Last(g) = UserTurnOf(turn[s])
            /\ Last(g).role = "user"]_vars

\* a failed call on a history that already holds an exchange
C6_Witness ==
  \E s \in Slots :
    /\ turn[s].path = "error"
    /\ ~IsEmptyPartsError(turn[s].error)
    /\ Len(History(turn[s].user)) >= 3
    /\ Last(History(turn[s].user)) = UserTurnOf(turn[s])

\* C7 (as stated): on a success with non-blank reply text R the history
\* grows by exactly the two turns (user, P), (model, [text R]).
SucceedsNow(s) ==
  /\ turn[s].pc \in {"generate", "countTokens"}
  /\ turn'[s].path = "success"
  /\ turn'[s].response.candidates # << >>
  /\ ~IsEmptyOrBlank(turn'[s].geminiResponseText)

ModelTurnOf(t) == Turn("model", <<TextPart(t.geminiResponseText)>>)

C7_GrowsByTwoTurns ==
  [][\A s \in Slots :
       SucceedsNow(s) =>
         session'[turn[s].user].history =
           History(turn[s].user) \o <<UserTurnOf(turn[s]), ModelTurnOf(turn'[s])>>]_vars

\* C7 (amended): on a success with non-blank reply text R the history becomes
\* the former history followed by (user, P), (model, [text R]), cut to its last
\* 20 turns; from the empty history the result is exactly those two turns.
C7_AppendsExchangeWithinBound ==
  [][\A s \in Slots :
       SucceedsNow(s) =>
         LET h == History(turn[s].user)
             g == session'[turn[s].user].history
             exchange == <<UserTurnOf(turn[s]), ModelTurnOf(turn'[s])>>
             all == h \o exchange
             drop == IF Len(all) > maxHistoryMessages
                     THEN Len(all) - maxHistoryMessages ELSE 0
         IN /\ Len(g) = Len(all) - drop
            /\ \A i \in 1..Len(g) : g[i] = all[i + drop]
            /\ SubSeq(g, Len(g) - 1, Len(g)) = exchange
            /\ (h = << >> => g = exchange)]_vars

\* a success with text on a full history: the oldest exchange is gone
C7_Witness ==
  \E s \in Slots :
    /\ turn[s].path = "success"
    /\ turn[s].geminiResponseText = ReplyText(turn[s].id)
    /\ turn[s].id > 10
    /\ Len(History(turn[s].user)) = maxHistoryMessages
    /\ Last(History(turn[s].user)) = ModelTurnOf(turn[s])

\* C8: an update with no text, no caption and no known attachment is answered
\* with the 'unsupported message type' notice alone: no provider call is made
\* and the history is left as it was.
IsEmptyUpdate(message) ==
  message.text = << >> /\ message.caption = << >> /\ ~HasFileId(message)

C8_EmptyTurnRejected ==
  [][\A s \in Slots :
       (turn'[s] # turn[s] /\ IsEmptyUpdate(turn'[s].message)) =>
         /\ turn'[s].pc = "done"
         /\ turn'[s].sent = <<UnsupportedText>>
         /\ turn'[s].calls.generate = 0
         /\ turn'[s].calls.countTokens = 0
         /\ session'[turn'[s].user].history = History(turn'[s].user)
         /\ session'[turn'[s].user].totalTokens = session[turn'[s].user].totalTokens]_vars

\* an unknown kind of update was rejected while the history holds turns
C8_Witness ==
  \E s \in Slots :
    /\ turn[s].pc = "done"
    /\ turn[s].message.media = "location"
    /\ turn[s].sent = <<UnsupportedText>>
    /\ Len(History(turn[s].user)) >= 2

\* C9: for an update with an attachment, whatever stage fails, the user turn
\* holds at least one part once the file block is left (a text part that
\* describes the failure when staging failed), the update is not rejected and
\* the provider is called.
StagingFailed(t) ==
  \/ t.fileBuffer = << >>
  \/ ~getFileProcessingStrategy(t.mimeType, t.request.model).canProcess
  \/ (t.calls.upload = 1 /\ t.fileState # "ACTIVE")

SyntheticTexts(t) ==
  {DownloadFailedText}
  \cup {FileApiFailedText(t.mimeType, r) :
          r \in {"upload_exception", "processing_failed",
                 "processing_timeout_or_unexpected_state"}}
  \cup {UnsupportedFileText(t.mimeType, t.request.model, r) :
          r \in {"upgrade_model", "supported"}}

C9_StagingFallback ==
  \A s \in Slots :
    (HasFileId(turn[s].message) /\ turn[s].pc \notin {"download", "upload", "poll"})
      => /\ Len(turn[s].currentUserMessageParts) >= 1
         /\ turn[s].path # "rejected"
         /\ turn[s].pc # "thinking" =>
              /\ turn[s].calls.generate = 1
              /\ StagingFailed(turn[s]) =>
                   /\ Last(turn[s].currentUserMessageParts).kind = "text"
                   /\ Last(turn[s].currentUserMessageParts).text \in SyntheticTexts(turn[s])

\* an attachment without caption whose processing FAILED was still sent on
C9_Witness ==
  \E s \in Slots :
    /\ HasFileId(turn[s].message)
    /\ turn[s].message.caption = << >>
    /\ turn[s].fileState = "FAILED"
    /\ turn[s].pc = "done"
    /\ turn[s].calls.generate = 1
    /\ Len(turn[s].currentUserMessageParts) = 1

\* C11: whatever the collaborators do, the message handler never throws and
\* never leaves a rejected promise: no reply that it started is rejected with
\* nobody awaiting it.
C11_NoEscapingException ==
  \A s \in Slots : turn[s].floating # "rejected"

\* C12: at most one turn of a user is in flight: no two invocations of the
\* handler for the same user are at once between the assembly of the prompt
\* from the history and their history update.
HoldsSnapshot(t) == t.pc \in {"thinking", "generate", "countTokens"}

C12_PerUserSerialization ==
  \A s, r \in Slots :
    (s # r /\ HoldsSnapshot(turn[s]) /\ HoldsSnapshot(turn[r]))
      => turn[s].user # turn[r].user

\* C13: a settings command processed while a turn is suspended does not
\* affect that turn: the model called, the system instruction and the tool
\* list of its provider call are those in force when its update arrived.
C13_NoRetroactiveSettings ==
  \A s \in Slots :
    turn[s].calls.generate = 1
      => /\ turn[s].request.model = turn[s].arrival.model
         /\ turn[s].request.systemInstruction = turn[s].arrival.systemInstruction
         /\ turn[s].tools = turn[s].arrival.tools

\* the fields of the session that a step changes for user u; the two tool
\* flags count as fields of their own, the activity stamp is not counted
Changed(u) ==
  {f \in {"history", "systemInstruction", "model", "talkMode", "totalTokens"} :
     session'[u][f] # session[u][f]}
  \cup {f \in {"urlContext", "googleSearch"} : session'[u].tools[f] # session[u].tools[f]}

SetterSteps(u, newChatFields) ==
  /\ NewChat => Changed(u) \subseteq newChatFields
  /\ SetSystemInstruction => Changed(u) \subseteq {"systemInstruction"}
  /\ ToggleTalkMode => Changed(u) = {"talkMode"}
  /\ ToggleUrlContext => Changed(u) = {"urlContext"}
  /\ ToggleGrounding => Changed(u) = {"googleSearch"}
  /\ SetModel => Changed(u) \subseteq {"model"}

\* C14 (as stated): each configuration command changes its one field of the
\* session (for /newchat: the history) and leaves every other field as it was.
C14_SingleFieldSetters ==
  [][\A u \in budget.users : SetterSteps(u, {"history"})]_vars

\* C14 (amended): each configuration command changes its one field and leaves
\* every other field as it was, but for /newchat, which resets the history and
\* the system instruction and leaves the other fields as they were.
C14_SettersChangeOwnFields ==
  [][\A u \in budget.users : SetterSteps(u, {"history", "systemInstruction"})]_vars

\* a grounding toggle has acted on a session whose other fields are set
C14_Witness ==
  \E u \in Users :
    /\ u \in stored
    /\ ~session[u].tools.googleSearch
    /\ session[u].history # << >>
    /\ session[u].totalTokens > 0

\* C15 (as stated): after /newchat the session equals the initial session in
\* every field.
SameSettings(a, b) ==
  /\ a.history = b.history
  /\ a.systemInstruction = b.systemInstruction
  /\ a.model = b.model
  /\ a.tools = b.tools
  /\ a.talkMode = b.talkMode
  /\ a.totalTokens = b.totalTokens

C15_FullReset ==
  [][NewChat => \A u \in Users : SameSettings(session'[u], DefaultSession)]_vars

\* C15 (amended): after /newchat the history is empty and there is no system
\* instruction; the model, both tool flags, the thinking flag and the token
\* total are what they were before the command.
C15_ResetsHistoryAndInstruction ==
  [][NewChat =>
       \A u \in Users :
         SameSettings(session'[u],
                      [session[u] EXCEPT !.history = << >>, !.systemInstruction = ""])]_vars

\* /newchat has acted after an exchange: tokens are counted, the history is empty
C15_Witness ==
  \E u \in Users :
    /\ session[u].totalTokens > 0
    /\ session[u].history = << >>
    /\ \A s \in Slots : ~Busy(s)

\* C16: in every turn whose thinking notice was sent, exactly one deletion of
\* it is attempted after the provider call has finished, on the success and on
\* the failure path; a failing deletion is swallowed and the final reply is
\* still sent; with the indicator off no notice is sent and nothing is deleted.
NoticeSent(t) == \E i \in 1..Len(t.sent) : t.sent[i] = ThinkingText

C16_ThinkingNoticeRetracted ==
  \A s \in Slots :
    LET t == turn[s]
    IN /\ t.calls.deleteMessage <= 1
       /\ t.calls.deleteMessage = 1 =>
            t.thinkingMessageId # 0 /\ t.path \in {"success", "error"}
       /\ (t.pc \in {"reply", "done"} /\ t.path \in {"success", "error"}) =>
            /\ t.calls.deleteMessage = 1 <=> t.thinkingMessageId # 0
            /\ Len(t.sent) = (IF NoticeSent(t) THEN 2 ELSE 1)
            /\ Last(t.sent) # ThinkingText
       /\ t.deleteError => t.pc \in {"reply", "done"}
       /\ (t.pc # "idle" /\ ~t.arrival.talkMode) =>
            ~NoticeSent(t) /\ t.thinkingMessageId = 0 /\ t.calls.deleteMessage = 0

\* a turn whose thinking notice could not be deleted was still answered
C16_Witness ==
  \E s \in Slots :
    /\ turn[s].pc = "done"
    /\ turn[s].path \in {"success", "error"}
    /\ turn[s].thinkingMessageId # 0
    /\ turn[s].deleteError
    /\ turn[s].calls.deleteMessage = 1
    /\ Len(turn[s].sent) = 2

\* C17: if every external call eventually returns or throws, the processing
\* of every update ends, whatever the outcomes of the calls.
C17_DoneAlwaysReached ==
  \A s \in Slots : Busy(s) ~> ~Busy(s)

\* a turn ended after the polling of its upload ran out of attempts
C17_Witness ==
  \E s \in Slots :
    /\ turn[s].pc = "done"
    /\ turn[s].attempts = maxAttempts
    /\ turn[s].fileState = "PROCESSING"
    /\ turn[s].calls.generate = 1

\* the upload of the attachment of t was made and uploadFileToGemini returned
Staged(t) == t.calls.upload = 1 /\ t.pc \notin {"upload", "poll"}

FailureText(t, reason) == TextPart(FileApiFailedText(t.mimeType, reason))

\* C18: after an upload the state of the file is polled at most 12 times; the
\* loop stops at the first poll whose state is not PROCESSING; staging
\* succeeds exactly when the last state seen is ACTIVE, fails with
\* processing_failed exactly when it is FAILED, and fails with the timeout
\* reason when it is still PROCESSING after the 12th poll.
C18_BoundedPolling ==
  \A s \in Slots :
    LET t == turn[s]
        part == Last(t.currentUserMessageParts)
    IN /\ t.attempts <= maxAttempts
       /\ t.calls.getFile <= maxAttempts
       /\ t.attempts <= t.calls.getFile /\ t.calls.getFile <= t.attempts + 1
       /\ t.pc = "poll" => t.fileState = "PROCESSING" /\ t.calls.getFile = t.attempts + 1
       /\ Staged(t) =>
            /\ part.kind = "fileData" <=> t.fileState = "ACTIVE"
            /\ part = FailureText(t, "processing_failed") <=> t.fileState = "FAILED"
            /\ (t.fileState = "PROCESSING" /\ t.attempts = maxAttempts) =>
                 part = FailureText(t, "processing_timeout_or_unexpected_state")
            /\ t.calls.getFile = t.attempts \/ part = FailureText(t, "upload_exception")

\* the file became ACTIVE at the last poll the loop allows
C18_Witness ==
  \E s \in Slots :
    /\ turn[s].pc = "done"
    /\ turn[s].attempts = maxAttempts
    /\ turn[s].fileState = "ACTIVE"
    /\ Last(turn[s].currentUserMessageParts).kind = "fileData"

\* C19: when the first poll after an upload reports FAILED, staging fails with
\* processing_failed after exactly one poll, no further poll is made, and the
\* turn carries the failure text and no staged-file part.
C19_FailFastOnProcessingFailure ==
  \A s \in Slots :
    LET t == turn[s]
    IN (t.fileState = "FAILED" /\ t.attempts = 1) =>
         /\ t.calls.getFile = 1
         /\ t.pc \notin {"upload", "poll"}
         /\ Last(t.currentUserMessageParts) = FailureText(t, "processing_failed")
         /\ \A i \in 1..Len(t.currentUserMessageParts) :
              t.currentUserMessageParts[i].kind # "fileData"

\* the first poll reported FAILED and the turn was completed with one poll
C19_Witness ==
  \E s \in Slots :
    /\ turn[s].pc = "done"
    /\ turn[s].fileState = "FAILED"
    /\ turn[s].attempts = 1
    /\ turn[s].calls.getFile = 1
    /\ turn[s].calls.generate = 1

\* the attachment of t was downloaded and the file block has dealt with it
Placed(t) == HasFileId(t.message) /\ t.pc # "download" /\ t.fileBuffer # << >>

Inlined(t) ==
  /\ t.calls.upload = 0
  /\ Last(t.currentUserMessageParts) = InlinePart(t.mimeType)

Uploaded(t) ==
  /\ t.calls.upload = 1
  /\ \A i \in 1..Len(t.currentUserMessageParts) :
       t.currentUserMessageParts[i].kind # "inline_data"

Rejected(t, model) ==
  /\ t.calls.upload = 0
  /\ t.pc # "upload"
  /\ \E r \in {"upgrade_model", "supported"} :
       Last(t.currentUserMessageParts) = TextPart(UnsupportedFileText(t.mimeType, model, r))

ExactlyOne(a, b, c) == (a /\ ~b /\ ~c) \/ (~a /\ b /\ ~c) \/ (~a /\ ~b /\ c)

\* the classes of MIME types the bot knows how to hand to the provider
RecognisedType(mimeType) ==
  \/ \E prefix \in {"image/", "video/", "audio/", "text/"} : MimeStartsWith(mimeType, prefix)
  \/ mimeType \in
       {"application/pdf", "application/msword", "application/vnd.ms-excel",
        "application/vnd.ms-powerpoint", "application/javascript", "application/json",
        "application/xml",
        "application/vnd.openxmlformats-officedocument.wordprocessingml.document",
        "application/vnd.openxmlformats-officedocument.spreadsheetml.sheet",
        "application/vnd.openxmlformats-officedocument.presentationml.presentation"}

WireRequest(t) ==
  [contents |-> t.contents, tools |-> t.tools, model |-> t.request.model,
   systemInstruction |-> t.request.systemInstruction]

\* the handler of a message without attachment, run up to its generateContent
\* call on the session sess
GenerateCall(u, n, m, sess) ==
  LET t0 == [IdleTurn EXCEPT !.user = u, !.id = n, !.message = m]
      a == StartHandler(t0, sess)
  IN IF a.pc = "thinking" THEN CallGenerate([a EXCEPT !.thinkingMessageId = n], sess) ELSE a

\* C21: the tools sent to the provider hold the search tool exactly when the
\* search flag of the user was on when the tools were prepared, and never the
\* URL-context tool; the handler run on two sessions that differ only in the
\* URL-context flag makes the same provider request.
C21_WireLevelTools ==
  /\ \A s \in Slots :
       LET t == turn[s]
       IN t.calls.generate = 1 =>
            /\ t.tools = IF t.arrival.flags.googleSearch THEN <<"googleSearch">> ELSE << >>
            /\ \A i \in 1..Len(t.tools) : t.tools[i] # "urlContext"
  /\ \A u \in Users : \A m \in TextMessages(nextId) :
       LET a == GenerateCall(u, nextId, m, session[u])
           b == GenerateCall(u, nextId, m, ToggleUrlContextSession(session[u]))
       IN /\ a.calls.generate = b.calls.generate
          /\ a.calls.generate = 1 => WireRequest(a) = WireRequest(b)

\* a request went out for a user whose URL-context flag was on
C21_Witness ==
  \E s \in Slots :
    /\ turn[s].calls.generate = 1
    /\ turn[s].arrival.flags.urlContext
    /\ turn[s].tools = <<"googleSearch">>

\* the turn of slot s leaves the await of pc in this step
Leaves(s, pc) == turn[s].pc = pc /\ turn'[s].pc # pc

\* the last two turns of history are the exchange of t
EndsWithExchange(history, t) ==
  /\ Len(history) >= 2
  /\ history[Len(history) - 1] = Turn("user", t.currentUserMessageParts)
  /\ history[Len(history)].role = "model"

\* C22: when generateContent resolves with usage metadata the counter grows
\* by its totalTokenCount and countTokens is not called; without usage
\* metadata countTokens is called once, over the request of generateContent,
\* and the counter grows by its result; when countTokens throws the counter
\* does not change for the call, the exchange is still appended to the
\* history and the final reply is still sent.
C22_TokenAccounting ==
  [][\A s \in Slots :
       LET t == turn[s]
           t1 == turn'[s]
           u == t.user
           usage == t1.response.usageMetadata
       IN /\ (Leaves(s, "generate") /\ t1.path # "error" /\ usage.present)
               => /\ session'[u].totalTokens = session[u].totalTokens + usage.totalTokenCount
                  /\ t1.calls.countTokens = 0
                  /\ t1.path = "success"
          /\ (Leaves(s, "generate") /\ t1.path # "error" /\ ~usage.present)
               => /\ t1.pc = "countTokens"
                  /\ t1.calls.countTokens = 1
                  /\ WireRequest(t1) = WireRequest(t)
                  /\ session'[u] = session[u]
          /\ Leaves(s, "countTokens")
               => /\ t1.calls.countTokens = 1
                  /\ t1.path = "success"
                  /\ session'[u].totalTokens =
                       session[u].totalTokens
                       + (IF t1.tokenEstimation.thrown THEN 0
                          ELSE t1.tokenEstimation.totalTokens)
                  /\ EndsWithExchange(session'[u].history, t)
                  /\ t1.pc \in {"deleteMessage", "reply"}
                  /\ t1.pc = "reply" => Last(t1.sent) = t.geminiResponseText
                                        \/ Last(t1.sent) = FallbackText
          /\ (Leaves(s, "deleteMessage") /\ t.path = "success")
               => /\ t1.pc = "reply"
                  /\ Last(t1.sent) = t.geminiResponseText \/ Last(t1.sent) = FallbackText
     ]_vars

\* countTokens threw, and the turn ended with its reply sent and stored
C22_Witness ==
  \E s \in Slots :
    /\ turn[s].pc = "done"
    /\ turn[s].tokenEstimation.thrown
    /\ turn[s].path = "success"
    /\ session[turn[s].user].totalTokens = 0
    /\ Len(session[turn[s].user].history) = 2
    /\ Last(turn[s].sent) = turn[s].geminiResponseText

\* history is a sequence of user/model pairs
Paired(history) ==
  /\ Len(history) % 2 = 0
  /\ \A i \in 1..Len(history) :
       history[i].role = IF i % 2 = 1 THEN "user" ELSE "model"

\* the exchanges lo..hi of a conversation in which nothing deviates
RECURSIVE PlainRun(_, _)
PlainRun(lo, hi) ==
  IF lo > hi THEN << >>
  ELSE PlainRun(lo, hi - 1)
       \o <<Turn("user", <<TextPart(UserText(hi))>>), Turn("model", <<TextPart(ReplyText(hi))>>)>>

\* the success path stores its exchange in this step
StoresExchange(s) ==
  /\ turn[s].path # "success"
  /\ turn'[s].path = "success"

\* C23: after k successful exchanges from an empty history the history is the
\* last min(k, 10) exchanges in their order, so 20 turns from k = 10 on; a
\* successful exchange on a full history of pairs removes the oldest pair and
\* puts the new exchange at the end.
C23_FifoEviction ==
  /\ [](\A u \in stored :
          LET k == nextId - 1
          IN (budget.dev = MaxDev /\ \A s \in Slots : ~Busy(s))
               => /\ session[u].history = PlainRun(IF k > 10 THEN k - 9 ELSE 1, k)
                  /\ k >= 10 => Len(session[u].history) = maxHistoryMessages)
  /\ [][\A s \in Slots :
          LET u == turn[s].user
              h == session[u].history
              h1 == session'[u].history
          IN (StoresExchange(s) /\ Paired(h))
               => /\ EndsWithExchange(h1, turn[s])
                  /\ Paired(h1)
                  /\ IF Len(h) = maxHistoryMessages
                     THEN SubSeq(h1, 1, Len(h1) - 2) = SubSeq(h, 3, Len(h))
                     ELSE SubSeq(h1, 1, Len(h1) - 2) = h
       ]_vars

\* eleven exchanges succeeded one after the other: the first one is gone
C23_Witness ==
  \E u \in stored :
    /\ nextId = 12
    /\ budget.dev = MaxDev
    /\ \A s \in Slots : ~Busy(s)
    /\ Len(session[u].history) = maxHistoryMessages
    /\ session[u].history[1] = Turn("user", <<TextPart(UserText(2))>>)
    /\ session[u].history[20] = Turn("model", <<TextPart(ReplyText(11))>>)

\* C24: whenever a history update has to evict (the history with the turns
\* of the update appended would exceed the bound), whole oldest pairs are
\* dropped: the first retained turn has role 'user'.
C24_PairwiseEviction ==
  [][\A u \in Users :
       LET h == session[u].history
           h1 == session'[u].history
       IN (h1 # h /\ h1 # << >> /\ Len(h) >= maxHistoryMessages - 1
           /\ Len(h1) = maxHistoryMessages /\ h1[1] # h[1])
            => h1[1].role = "user"
    ]_vars

NoEmptyTurn(turns) == \A i \in 1..Len(turns) : Len(turns[i].parts) >= 1

\* C25: every turn of every stored history, and every turn of the contents of
\* every generateContent call, has at least one part.
C25_NonEmptyTurns ==
  /\ \A u \in Users : NoEmptyTurn(session[u].history)
  /\ \A s \in Slots : turn[s].calls.generate >= 1 => NoEmptyTurn(turn[s].contents)

\* an attachment without caption went to the provider and came back with an
\* empty reply: both stored turns hold one part
C25_Witness ==
  \E s \in Slots :
    /\ turn[s].pc = "done"
    /\ turn[s].path = "success"
    /\ HasFileId(turn[s].message)
    /\ turn[s].message.caption = << >>
    /\ IsEmptyOrBlank(turn[s].geminiResponseText)
    /\ Len(turn[s].contents) = 1
    /\ Len(session[turn[s].user].history) = 2
    /\ Len(session[turn[s].user].history[2].parts) = 1

\* what one step of an invocation of user a does, given a's own session sess
\* (DefaultSession for a new user) and a's own invocation t, and nothing else:
\* the steps of the handler for a message without attachment
LocalStep(a, t, sess, t1, sess1) ==
  \/ \E m \in TextMessages(t1.id) :
       LET arrived == [sess EXCEPT !.lastMessageTime = t1.id]
           t0 == [IdleTurn EXCEPT
                    !.user = a, !.id = t1.id, !.message = m,
                    !.arrival = [model |-> arrived.model,
                                 systemInstruction |-> arrived.systemInstruction,
                                 tools |-> ToolsOf(arrived), talkMode |-> arrived.talkMode,
                                 flags |-> arrived.tools]]
       IN /\ t.pc \in {"idle", "done"}
          /\ t1 = StartHandler(t0, arrived)
          /\ sess1 = arrived
  \/ /\ t.pc = "thinking"
     /\ \E ok \in BOOLEAN :
          t1 = CallGenerate([t EXCEPT !.thinkingMessageId = IF ok THEN t.id ELSE 0], sess)
     /\ sess1 = sess
  \/ /\ t.pc = "generate"
     /\ \E response \in Responses(t.id) :
          LET text == ExtractText(response)
              t2 == [t EXCEPT !.response = response, !.geminiResponseText = text]
          IN IF response.usageMetadata.present
             THEN /\ t1 = Finally([t2 EXCEPT !.path = "success"])
                  /\ sess1 = [sess EXCEPT
                                !.totalTokens = @ + response.usageMetadata.totalTokenCount,
                                !.history = PushSuccess(@, t.currentUserMessageParts, text)]
             ELSE /\ t1 = [Called(t2, "countTokens") EXCEPT !.pc = "countTokens"]
                  /\ sess1 = sess
  \/ /\ t.pc = "generate"
     /\ \E error \in ProviderErrors :
          t1 = Finally([t EXCEPT !.error = error, !.geminiResponseText = ErrorReply(error),
                                 !.path = "error"])
     /\ sess1 = [sess EXCEPT !.history = PushError(@, t.currentUserMessageParts)]
  \/ /\ t.pc = "countTokens"
     /\ \E counted \in BOOLEAN, totalTokens \in CountedTokens :
          /\ t1 = Finally([t EXCEPT
                             !.path = "success",
                             !.tokenEstimation =
                               [thrown |-> ~counted,
                                totalTokens |-> IF counted THEN totalTokens ELSE 0]])
          /\ sess1 = [sess EXCEPT
                        !.totalTokens = IF counted THEN @ + totalTokens ELSE @,
                        !.history = PushSuccess(@, t.currentUserMessageParts,
                                                t.geminiResponseText)]
  \/ /\ t.pc = "deleteMessage"
     /\ \E ok \in BOOLEAN : t1 = SendFinal([t EXCEPT !.deleteError = ~ok])
     /\ sess1 = sess
  \/ /\ t.pc = "reply"
     /\ t1 = [t EXCEPT !.pc = "done"]
     /\ sess1 = sess
  \/ /\ t.floating = "pending"
     /\ \E f \in {"resolved", "rejected"} : t1 = [t EXCEPT !.floating = f]
     /\ sess1 = sess

\* C26: a step of an invocation of user a changes no session and no
\* invocation of another user, and what it does to a's session, a's counter
\* and a's replies is determined by a's own session and invocation alone, as
\* if a's updates ran alone.
C26_CrossUserIsolation ==
  [][\A s \in Slots :
       turn'[s] # turn[s] =>
         LET a == turn'[s].user
             own == IF a \in stored THEN session[a] ELSE DefaultSession
         IN /\ \A b \in Users \ {a} : session'[b] = session[b] /\ (b \in stored' <=> b \in stored)
            /\ \A r \in Slots \ {s} : turn'[r] = turn[r]
            /\ a \in stored'
            /\ LocalStep(a, turn[s], own, turn'[s], session'[a])
    ]_vars

\* the update of u2 arrived after that of u1 and was answered and stored
\* while that of u1 was still waiting for the provider
C26_Witness ==
  \E s, r \in Slots :
    /\ turn[s].user = "u1" /\ turn[s].pc = "generate"
    /\ turn[r].user = "u2" /\ turn[r].pc = "done" /\ turn[r].path = "success"
    /\ turn[r].id > turn[s].id
    /\ Len(session["u2"].history) = 2
    /\ session["u1"].history = << >>

\* the byte signatures detectMimeType knows
Signatures ==
  {<<137, 80, 78, 71>>, <<255, 216, 255>>, <<71, 73, 70, 56>>, <<66, 77>>,
   <<73, 73, 42, 0>>, <<77, 77, 0, 42>>, <<26, 69, 223, 163>>, <<70, 76, 86, 1>>,
   <<73, 68, 51>>, <<255, 251>>, <<255, 243>>, <<79, 103, 103, 83>>, <<37, 80, 68, 70>>,
   <<80, 75, 3, 4>>, <<80, 75, 5, 6>>, <<80, 75, 7, 8>>,
   <<208, 207, 17, 224, 161, 177, 26, 225>>, <<31, 139, 8>>,
   <<55, 122, 188, 175, 39, 28>>, <<82, 97, 114, 33, 26, 7, 0>>}

\* the bytes of buffer carry one of the signatures
SignatureMatches(buffer) ==
  /\ Len(buffer) >= 4
  /\ \/ \E p \in Signatures : StartsWith(buffer, p)
     \/ /\ StartsWith(buffer, <<82, 73, 70, 70>>)
        /\ Sub8to12(buffer) \in {<<87, 69, 66, 80>>, <<87, 65, 86, 69>>}
     \/ Includes(Hex(buffer), Hex(<<102, 116, 121, 112>>))

\* the extensions detectMimeType knows
Extensions ==
  {"mp4", "webm", "flv", "avi", "mov", "qt", "mkv", "mp3", "ogg", "flac", "aac", "m4a",
   "pdf", "txt", "html", "htm", "css", "js", "json", "xml", "md", "csv", "rtf", "py",
   "gz", "7z", "rar"}

\* C27: the type detectMimeType returns for bytes that carry a recognised
\* signature is the same for every file name; when neither a signature nor the
\* extension is recognised the type is application/octet-stream.
C27_SignatureBeforeExtension ==
  \A s \in Slots :
    LET t == turn[s]
    IN Placed(t) =>
         /\ SignatureMatches(t.fileBuffer)
              => \A fileName \in PlaceFileNames :
                   detectMimeType(t.fileBuffer, fileName) = t.mimeType
         /\ (~SignatureMatches(t.fileBuffer) /\ ExtOf(t.fileName) \notin Extensions)
              => t.mimeType = "application/octet-stream"

\* C28: for a buffer of at least 4 bytes that starts with 89 50 4E 47 the
\* type detected is image/png under every file name, and detecting again on
\* the same buffer and name gives the type detected before.
C28_PngDetection ==
  \A s \in Slots :
    LET t == turn[s]
    IN (Placed(t) /\ Len(t.fileBuffer) >= 4
        /\ SubSeq(t.fileBuffer, 1, 4) = <<137, 80, 78, 71>>)
         => /\ t.mimeType = "image/png"
            /\ detectMimeType(t.fileBuffer, t.fileName) = t.mimeType
            /\ \A fileName \in PlaceFileNames \cup FileNames :
                 detectMimeType(t.fileBuffer, fileName) = "image/png"

\* PNG bytes that go on with 'ftyp', in a file named a.mp4
C28_Witness ==
  \E s \in Slots :
    /\ Placed(turn[s])
    /\ turn[s].fileBuffer = PngFtypBuffer
    /\ turn[s].fileName = <<"a", "mp4">>
    /\ turn[s].mimeType = "image/png"

\* C29: the final reply is the reply text, or the static fallback text when
\* the reply text is empty or blank; the text sent is never blank, and no
\* turn that went to the provider ends without its final reply.
C29_BlankReplyFallback ==
  /\ [][\A s \in Slots :
          (turn[s].pc # "reply" /\ turn'[s].pc = "reply")
            => LET text == turn'[s].geminiResponseText
               IN /\ turn'[s].sent =
                       Append(turn[s].sent, IF IsEmptyOrBlank(text) THEN FallbackText ELSE text)
                  /\ ~IsEmptyOrBlank(Last(turn'[s].sent))
       ]_vars
  /\ [](\A s \in Slots :
          (turn[s].pc = "done" /\ turn[s].path \in {"success", "error"})
            => /\ turn[s].sent # << >>
               /\ Last(turn[s].sent) \in {turn[s].geminiResponseText, FallbackText}
               /\ ~IsEmptyOrBlank(Last(turn[s].sent)))

\* the provider answered with blanks and the fallback text was sent
C29_Witness ==
  \E s \in Slots :
    /\ turn[s].pc = "done"
    /\ turn[s].path = "success"
    /\ turn[s].geminiResponseText = <<" ">>
    /\ Last(turn[s].sent) = FallbackText

\* the messages of t other than the thinking message
RECURSIVE Replies(_)
Replies(sent) ==
  IF sent = << >> THEN 0
  ELSE (IF Head(sent) = ThinkingText THEN 0 ELSE 1) + Replies(Tail(sent))

\* C30: in one invocation of the handler the download, the upload,
\* generateContent and countTokens are each called at most once and at most
\* one reply is sent, whatever failed; only getFile is called repeatedly, at
\* most maxAttempts times.
C30_SingleAttempt ==
  \A s \in Slots :
    LET t == turn[s]
    IN /\ t.calls.download <= 1
       /\ t.calls.upload <= 1
       /\ t.calls.generate <= 1
       /\ t.calls.countTokens <= 1
       /\ Replies(t.sent) <= 1
       /\ t.calls.getFile <= maxAttempts
       /\ t.calls.getFile > 0 => t.calls.upload = 1

\* the status was polled more than once, then generateContent failed and the
\* turn ended without a second call
C30_Witness ==
  \E s \in Slots :
    /\ turn[s].pc = "done"
    /\ turn[s].path = "error"
    /\ turn[s].calls.download = 1
    /\ turn[s].calls.upload = 1
    /\ turn[s].calls.getFile >= 2
    /\ turn[s].calls.generate = 1
    /\ Replies(turn[s].sent) = 1

MimeTypes ==
  {detectMimeType(b, f) : b \in PlaceBuffers, f \in PlaceFileNames \cup FileNames} \cup {""}

\* C32: getFileProcessingStrategy gives canProcess only together with
\* useInlineData or useFileAPI, so a downloaded attachment adds exactly one
\* part to the turn, and an update with an attachment is never answered with
\* the 'problem processing your message' text.
C32_StrategyComplete ==
  /\ \A mimeType \in MimeTypes, currentModel \in PlaceModels \cup {""} :
       LET strategy == getFileProcessingStrategy(mimeType, currentModel)
       IN strategy.canProcess => (strategy.useInlineData \/ strategy.useFileAPI)
  /\ \A s \in Slots :
       LET t == turn[s]
       IN HasFileId(t.message) =>
            /\ (Placed(t) /\ t.pc \notin {"upload", "poll"})
                 => Len(t.currentUserMessageParts) = 1 + Cost(t.message.caption = << >>)
            /\ t.path # "rejected"
            /\ \A i \in 1..Len(t.sent) : t.sent[i] # ProblemText

\* a text file was staged and its one part went to the provider
C32_Witness ==
  \E s \in Slots :
    /\ turn[s].pc = "done"
    /\ turn[s].mimeType = "text/plain"
    /\ turn[s].calls.upload = 1
    /\ turn[s].calls.generate = 1
    /\ Len(turn[s].currentUserMessageParts) = 1

\* C33: when the last update processed for a user is a 'new conversation'
\* command (under SpecNewChat: an update that no invocation of the message
\* handler belongs to), no update has been received after it, so the history
\* is empty, also once a turn that was suspended while the command ran has
\* completed.
C33_NewChatOutlastsTurn ==
  \A u \in stored :
    (\A s \in Slots : turn[s].id < session[u].lastMessageTime)
      => session[u].history = << >>

\* C34: a step that adds a model turn to a history adds it directly behind
\* the user turn of the same invocation, in that step; no history ever holds
\* two model turns in a row, however the turns of a user interleave.
C34_NoAdjacentModelTurns ==
  /\ [](\A u \in Users :
          \A i \in 1..(Len(session[u].history) - 1) :
            ~(session[u].history[i].role = "model"
              /\ session[u].history[i + 1].role = "model"))
  /\ [][\A s \in Slots :
          LET u == turn[s].user
              h1 == session'[u].history
          IN (StoresExchange(s) /\ u \in stored) => EndsWithExchange(h1, turn[s])
       ]_vars

\* two turns of one user overlapped and the later one was stored first
C34_Witness ==
  \E u \in stored :
    /\ Len(session[u].history) = 4
    /\ session[u].history[1] = Turn("user", <<TextPart(UserText(2))>>)
    /\ session[u].history[3] = Turn("user", <<TextPart(UserText(1))>>)
    /\ session[u].history[4].role = "model"

ApiNames == {AVAILABLE_MODELS[a] : a \in DOMAIN AVAILABLE_MODELS}

UpgradeHint(t) ==
  \E i \in 1..Len(t.currentUserMessageParts), model \in ApiNames \cup ModelNames :
    t.currentUserMessageParts[i]
      = TextPart(UnsupportedFileText(t.mimeType, model, "upgrade_model"))

\* C35: the model of every session is an API name of AVAILABLE_MODELS and so
\* one of CAPABLE_FILE_MODELS; /setmodel without a name or with an unknown name
\* leaves history, system instruction, model, tool flags, thinking flag and
\* token counter as they are, and with a known alias changes the model only;
\* getFileProcessingStrategy recommends 'upgrade_model' for no session and no
\* turn carries the hint to choose a stronger model.
C35_SelectedModelValid ==
  /\ [](\A u \in Users :
          /\ session[u].model \in ApiNames
          /\ session[u].model \in CAPABLE_FILE_MODELS
          /\ \A mimeType \in MimeTypes :
               getFileProcessingStrategy(mimeType, session[u].model).recommendation
                 = "supported"
          /\ \A modelName \in ModelNames :
               IF modelName \in DOMAIN MODEL_ALIASES
               THEN SetModelSession(Arrived(u), modelName)
                      = [Arrived(u) EXCEPT !.model = AVAILABLE_MODELS[MODEL_ALIASES[modelName]]]
               ELSE SetModelSession(Arrived(u), modelName) = Arrived(u))
  /\ [](\A s \in Slots : ~UpgradeHint(turn[s]))
  /\ [][SetModel => \A u \in Users :
          /\ Changed(u) \subseteq {"model"}
          /\ session'[u].model
               \in {SetModelSession(Arrived(u), modelName).model : modelName \in ModelNames}
       ]_vars

\* a model other than the default one has been selected and an attachment was
\* then uploaded for it, without the hint to choose a stronger model
C35_Witness ==
  \E s \in Slots :
    /\ turn[s].user \in stored
    /\ session[turn[s].user].model = "gemini-2.0-flash"
    /\ turn[s].request.model = "gemini-2.0-flash"
    /\ turn[s].calls.upload = 1
    /\ turn[s].calls.generate = 1
    /\ ~UpgradeHint(turn[s])

SameTokens == \A u \in Users : session'[u].totalTokens = session[u].totalTokens

\* C36: no step lowers the token counter of a session; a rejected
\* generateContent, the rejection of an update without content and every
\* command, /newchat among them, leave it as it was.
C36_TokenCounterMonotone ==
  /\ [][\A u \in Users : session'[u].totalTokens >= session[u].totalTokens]_vars
  /\ [][\A s \in Slots :
          /\ (Leaves(s, "generate") /\ turn'[s].path = "error") => SameTokens
          /\ (turn[s].path # "rejected" /\ turn'[s].path = "rejected") => SameTokens
       ]_vars
  /\ [][(NewChat \/ SetSystemInstruction \/ ToggleTalkMode \/ ToggleUrlContext
         \/ ToggleGrounding \/ SetModel \/ ShowInfo) => SameTokens]_vars

\* tokens were counted for one exchange, the provider failed on the next
\* update and the conversation was then cleared
C36_Witness ==
  \E s \in Slots :
    /\ turn[s].pc = "done"
    /\ turn[s].path = "error"
    /\ turn[s].user \in stored
    /\ session[turn[s].user].totalTokens > 0
    /\ session[turn[s].user].history = << >>
    /\ session[turn[s].user].lastMessageTime > turn[s].id

\* C37: a step of the message handler, on whichever path, changes of a
\* session at most the history, the token counter and the time of the last
\* message; the system instruction, the model, both tool flags and the
\* thinking flag stay as they were.
C37_TurnFrame ==
  [][(turn' # turn) =>
       \A u \in Users :
         /\ Changed(u) \subseteq {"history", "totalTokens"}
         /\ session'[u].systemInstruction = session[u].systemInstruction
         /\ session'[u].model = session[u].model
         /\ session'[u].tools = session[u].tools
         /\ session'[u].talkMode = session[u].talkMode
    ]_vars

\* the search tool was switched off and the provider then failed on an
\* update, whose user turn was stored
C37_Witness ==
  \E s \in Slots :
    /\ turn[s].pc = "done"
    /\ turn[s].path = "error"
    /\ turn[s].id > 1
    /\ ~session[turn[s].user].tools.googleSearch
    /\ session[turn[s].user].history = <<Turn("user", turn[s].currentUserMessageParts)>>
    /\ session[turn[s].user].lastMessageTime = turn[s].id

(***************************************************************************)
(* The earlier draft of the message handler (the first bot.on('message')   *)
(* of app.js), whose catch block clears the history on the error           *)
(* 'contents.parts must not be empty'.  A turn of its history carries the  *)
(* identity of its parts array, which the catch block compares with !==:   *)
(* the number of the invocation for currentUserMessageParts, 0 for an      *)
(* array literal.                                                          *)
(***************************************************************************)
MaxDraftUpdates == 2
MaxDraftDev == 1

DraftTurn(role, parts, array) == [role |-> role, parts |-> parts, array |-> array]

DraftSession ==
  [DefaultSession EXCEPT !.model = "gemini-1.5-pro-latest"]

DraftModels == {"gemini-1.5-pro-latest", "gemini-2.0-flash"}

\* modelName.includes('1.5-pro') || modelName.includes('2.5-pro-preview')
modelSupportsFileAPI(modelName) ==
  modelName \in {"gemini-1.5-pro-latest", "gemini-2.5-pro-preview-05-06"}

DraftMediaKinds == {"photo", "video", "document", "voice", "video_note"}
\* document.mime_type and video.mime_type as Telegram sends them: none or one
DraftMimeTypes == {"", "application/pdf", "image/gif"}

\* telegramProvidedMimeType of the draft
DraftMimeOf(message, mime_type) ==
  CASE message.media = "photo" -> "image/jpeg"
    [] message.media = "video" -> IF mime_type # "" THEN mime_type ELSE "video/mp4"
    [] message.media = "document" ->
         IF mime_type # "" THEN mime_type ELSE "application/octet-stream"
    [] message.media = "voice" -> "audio/ogg"
    [] message.media = "video_note" -> "video/mp4"
    [] OTHER -> ""

DraftFileFailedText(what, mime) == <<"[Error: could not ", what, " the file (", mime, ").]">>

DraftUnsupportedFileText(mime, model) ==
  <<"[A file of type ", mime, " is not supported by the selected model (", model,
    ") or the processing method.]">>

DraftHintText ==
  <<" The message format or the history may be the problem. Start a new chat with /newchat.">>

\* mutant: the draft calls the provider for a turn without parts as well
DraftAfterFileBlockNoCheck(t, sess) ==
  LET t1 == [t EXCEPT
               !.contents = Append(sess.history,
                                   DraftTurn("user", t.currentUserMessageParts, t.id)),
               !.tools = ToolsOf(sess),
               !.geminiResponseText = NoAnswerText,
               !.request = [model |-> sess.model,
                            systemInstruction |-> sess.systemInstruction]]
  IN IF sess.talkMode
     THEN [Say(t1, ThinkingText) EXCEPT !.pc = "thinking"]
     ELSE [Called(t1, "generate") EXCEPT !.pc = "generate"]

\* the draft from its empty-parts check to its next await: 3. contents,
\* 4. tools, 5. the thinking message, 6. generateContent
DraftAfterFileBlock(t, sess) ==
  IF Len(t.currentUserMessageParts) = 0
  THEN [Say(t, UnsupportedText) EXCEPT !.pc = "done", !.path = "rejected",
                                       !.floating = "pending"]
  ELSE LET t1 == [t EXCEPT
                    !.contents = Append(sess.history,
                                        DraftTurn("user", t.currentUserMessageParts, t.id)),
                    !.tools = ToolsOf(sess),
                    !.geminiResponseText = NoAnswerText,
                    !.request = [model |-> sess.model,
                                 systemInstruction |-> sess.systemInstruction]]
       IN IF sess.talkMode
          THEN [Say(t1, ThinkingText) EXCEPT !.pc = "thinking"]
          ELSE [Called(t1, "generate") EXCEPT !.pc = "generate"]

\* the draft from its start to its first await
DraftStartHandler(t, sess, mime_type) ==
  LET m == t.message
      text == IF m.text # << >> THEN m.text ELSE m.caption
      t1 == IF text # << >> THEN AddPart(t, TextPart(text)) ELSE t
      mime == DraftMimeOf(m, mime_type)
      isImage == mime \in {"image/jpeg", "image/gif"}
      isPdf == mime = "application/pdf"
      useInlineData == isImage /\ mime # "image/gif"
      useFileAPI == (modelSupportsFileAPI(sess.model) /\ (isPdf \/ ~isImage))
                    \/ (~useInlineData /\ isImage)
      t2 == [t1 EXCEPT !.mimeType = mime]
  IN IF TextStartsWith(m.text, "/") THEN [t EXCEPT !.pc = "done", !.path = "ignored"]
     ELSE IF m.media \notin DraftMediaKinds THEN DraftAfterFileBlock(t1, sess)
     ELSE IF useFileAPI
     THEN [Called(t2, "download") EXCEPT !.pc = "download", !.fileState = "useFileAPI"]
     ELSE IF useInlineData
     THEN [Called(t2, "download") EXCEPT !.pc = "download", !.fileState = "useInlineData"]
     ELSE DraftAfterFileBlock(
            AddPart(t2, TextPart(DraftUnsupportedFileText(mime, sess.model))), sess)

\* the guard of the catch block:
\*   parts.length > 0 && history.length === 0 || history[last].parts !== parts
\* where history[-1].parts of an empty history is a TypeError
DraftGuard(history, parts, array) ==
  IF Len(parts) > 0 /\ Len(history) = 0 THEN "true"
  ELSE IF Len(history) = 0 THEN "TypeError"
  ELSE IF history[Len(history)].array # array THEN "true"
  ELSE "false"

\* the history after the catch block, as far as it got
DraftCatchHistory(history, parts, array, error) ==
  LET h0 == IF error.hasResponseData /\ error.apiMessage = EmptyPartsMessage
            THEN << >> ELSE history
  IN IF DraftGuard(h0, parts, array) = "true"
     THEN SliceLast(Append(h0, DraftTurn("user", parts, array)), maxHistoryMessages)
     ELSE h0

DraftCatchThrows(history, parts, array, error) ==
  LET h0 == IF error.hasResponseData /\ error.apiMessage = EmptyPartsMessage
            THEN << >> ELSE history
  IN DraftGuard(h0, parts, array) = "TypeError"

DraftErrorReply(error) ==
  ErrorReply(error)
  \o (IF error.hasResponseData /\ error.apiMessage = EmptyPartsMessage
      THEN DraftHintText ELSE << >>)

\* the success path of the draft: the user turn, the model turn, slice(-20)
DraftPushSuccess(history, parts, array, text) ==
  LET h1 == Append(history, DraftTurn("user", parts, array))
      h2 == IF text # << >> /\ ~IsBlank(text)
            THEN Append(h1, DraftTurn("model", <<TextPart(text)>>, 0))
            ELSE Append(h1, DraftTurn("model", <<TextPart(<< >>)>>, 0))
  IN SliceLast(h2, maxHistoryMessages)

\* the finally block; an exception of the catch block leaves the handler
\* behind it, otherwise 8. the final reply follows
DraftFinally(t) ==
  IF t.thinkingMessageId # 0
  THEN [Called(t, "deleteMessage") EXCEPT !.pc = "deleteMessage"]
  ELSE IF t.path = "thrown" THEN [t EXCEPT !.pc = "thrown"]
  ELSE SendFinal(t)

DraftReceive(s, u, m, mime_type) ==
  LET cost == Cost(m = PlainMessage(nextId)) + Cost(mime_type = "")
              + Cost(\A r \in Slots : ~Busy(r))
      sess == Arrived(u)
      t0 == [IdleTurn EXCEPT !.user = u, !.id = nextId, !.message = m]
  IN /\ ~Busy(s)
     /\ u \in budget.users
     /\ \A r \in Slots : Busy(r) => (budget.overlap /\ r # s)
     /\ s = "s1" \/ Busy("s1")
     /\ budget.updates > 0
     /\ CanPay(cost)
     /\ session' = [session EXCEPT ![u] = sess]
     /\ stored' = stored \cup {u}
     /\ turn' = [turn EXCEPT ![s] = DraftStartHandler(t0, sess, mime_type)]
     /\ nextId' = nextId + 1
     /\ budget' = [budget EXCEPT !.updates = @ - 1, !.dev = @ - cost]
     /\ UNCHANGED remoteFiles

DraftArriveText ==
  \E s \in Slots, u \in Users : \E m \in TextMessages(nextId) : DraftReceive(s, u, m, "")

DraftArriveMedia ==
  \E s \in Slots, u \in Users, mime_type \in DraftMimeTypes :
    \E m \in {x \in MediaMessages(nextId) : x.file_name = << >>} :
      /\ mime_type = "" \/ m.media \in {"video", "document"}
      /\ DraftReceive(s, u, m, mime_type)

\* downloadFileBuffer or downloadFileAsBase64 returns
DraftDownloadReturns ==
  \E s \in Slots, outcome \in {"data", "null", "thrown"} :
    LET t == turn[s]
        sess == session[t.user]
    IN /\ turn[s].pc = "download"
       /\ outcome = "thrown" => t.fileState = "useInlineData"
       /\ Step(s, "download", Cost(outcome = "data"),
               IF t.fileState = "useFileAPI"
               THEN IF outcome = "data"
                    THEN [Called(t, "upload") EXCEPT !.pc = "upload"]
                    ELSE DraftAfterFileBlock(
                           AddPart(t, TextPart(DraftFileFailedText("download", t.mimeType))),
                           sess)
               ELSE IF outcome = "data"
                    THEN DraftAfterFileBlock(AddPart(t, InlinePart(t.mimeType)), sess)
                    ELSE DraftAfterFileBlock(
                           AddPart(t, TextPart(DraftFileFailedText("process", t.mimeType))),
                           sess),
               sess)

\* uploadFileToGemini of the draft returns the file or null
DraftUploadReturns ==
  \E s \in Slots, uploaded \in BOOLEAN :
    LET t == turn[s]
        sess == session[t.user]
    IN /\ turn[s].pc = "upload"
       /\ Step(s, "upload", Cost(uploaded),
               DraftAfterFileBlock(
                 AddPart(t, IF uploaded THEN FilePart(t.mimeType)
                            ELSE TextPart(DraftFileFailedText("upload", t.mimeType))),
                 sess),
               sess)

DraftThinkingReturns ==
  \E s \in Slots, ok \in BOOLEAN :
    LET t == turn[s]
    IN /\ turn[s].pc = "thinking"
       /\ Step(s, "thinking", Cost(ok),
               [Called([t EXCEPT !.thinkingMessageId = IF ok THEN t.id ELSE 0], "generate")
                  EXCEPT !.pc = "generate"],
               session[t.user])

\* generateContent resolves: the text, the tokens, the history, finally
DraftGenerateResolves ==
  \E s \in Slots :
    LET t == turn[s]
        sess == session[t.user]
    IN \E response \in Responses(t.id) :
         LET text == ExtractText(response)
             t1 == [t EXCEPT !.response = response, !.geminiResponseText = text]
         IN /\ turn[s].pc = "generate"
            /\ Step(s, "generate", ResponseCost(response, t.id),
                    IF response.usageMetadata.present
                    THEN DraftFinally([t1 EXCEPT !.path = "success"])
                    ELSE [Called(t1, "countTokens") EXCEPT !.pc = "countTokens"],
                    IF response.usageMetadata.present
                    THEN [sess EXCEPT
                            !.totalTokens = @ + response.usageMetadata.totalTokenCount,
                            !.history = DraftPushSuccess(@, t.currentUserMessageParts,
                                                         t.id, text)]
                    ELSE sess)

DraftCountTokensReturns ==
  \E s \in Slots, counted \in BOOLEAN, totalTokens \in CountedTokens :
    LET t == turn[s]
        sess == session[t.user]
    IN /\ turn[s].pc = "countTokens"
       /\ Step(s, "countTokens", Cost(counted /\ totalTokens = 2),
               DraftFinally([t EXCEPT !.path = "success"]),
               [sess EXCEPT
                  !.totalTokens = IF counted THEN @ + totalTokens ELSE @,
                  !.history = DraftPushSuccess(@, t.currentUserMessageParts, t.id,
                                               t.geminiResponseText)])

\* generateContent rejects: the catch block, finally
DraftGenerateRejects ==
  \E s \in Slots, error \in ProviderErrors :
    LET t == turn[s]
        sess == session[t.user]
        parts == t.currentUserMessageParts
        thrown == DraftCatchThrows(sess.history, parts, t.id, error)
    IN /\ turn[s].pc = "generate"
       /\ Step(s, "generate", 1,
               DraftFinally([t EXCEPT !.error = error,
                                      !.geminiResponseText = DraftErrorReply(error),
                                      !.path = IF thrown THEN "thrown" ELSE "error"]),
               [sess EXCEPT !.history = DraftCatchHistory(@, parts, t.id, error)])

DraftDeleteReturns ==
  \E s \in Slots, ok \in BOOLEAN :
    LET t == turn[s]
        t1 == [t EXCEPT !.deleteError = ~ok]
    IN /\ turn[s].pc = "deleteMessage"
       /\ Step(s, "deleteMessage", Cost(ok),
               IF t.path = "thrown" THEN [t1 EXCEPT !.pc = "thrown"] ELSE SendFinal(t1),
               session[t.user])

\* a user of the draft who has chosen a model
InitDraft ==
  \E model \in DraftModels :
    /\ session = [u \in Users |-> [DraftSession EXCEPT !.model = model,
                                                       !.lastMessageTime = 1]]
    /\ stored = {"u1"}
    /\ turn = [s \in Slots |-> IdleTurn]
    /\ nextId = 2
    /\ remoteFiles = 0
    /\ budget = [updates |-> MaxDraftUpdates, dev |-> MaxDraftDev, overlap |-> TRUE,
                 users |-> {"u1"}]

NextDraft ==
  \/ DraftArriveText
  \/ DraftArriveMedia
  \/ DraftDownloadReturns
  \/ DraftUploadReturns
  \/ DraftThinkingReturns
  \/ DraftGenerateResolves
  \/ DraftCountTokensReturns
  \/ DraftGenerateRejects
  \/ DraftDeleteReturns
  \/ ReplyReturns
  \/ NoticeReturns
  \/ NewChat

SpecDraft == InitDraft /\ [][NextDraft]_vars

\* the entries of history whose parts array is the one of invocation id
Occurrences(history, id) == {i \in 1..Len(history) : history[i].array = id}

====
